---- MODULE Spec2Model ----
(***************************************************************************)
(* Identity and credential subsystem of the sushi backend: the in-memory   *)
(* UserStore (users keyed by email, password reset ledger), the User       *)
(* entity, the JWT issuer/verifier, the auth middlewares and the axum      *)
(* endpoint handlers that guard the store with one tokio RwLock.           *)
(*                                                                         *)
(* Strings that the code inspects (emails, passwords) are sequences of     *)
(* one-character strings.  Option<T> is <<>> (None) or <<x>> (Some(x)).    *)
(* The clock counts whole seconds.                                         *)
(***************************************************************************)
EXTENDS Integers, Sequences, FiniteSets, TLC

VARIABLES
    users,                  \* UserStore.users: email -> User
    password_reset_tokens,  \* UserStore.password_reset_tokens: token -> (email, expiry)
    now,                    \* chrono::Utc::now(), in seconds
    jwt_secret,             \* the JWT_SECRET environment variable
    nextId,                 \* the next value Uuid::new_v4() yields for a user id
    nextToken,              \* the next value Uuid::new_v4() yields for a reset token
    sessions,               \* the TokenResponses that clients hold and may present
    resp,                   \* the response of the last request served (Spec, SpecTok)
    consumed,               \* history: reset tokens a successful reset_password consumed
    issued_at,              \* history: the time each reset token was issued at
    password_set,           \* history: the password last set for each stored user id
    writer,                 \* the task holding the RwLock write guard, or 0
    readers,                \* the tasks holding an RwLock read guard
    pc,                     \* per task: its position in the handler it runs
    req,                    \* per task: the request it serves
    loc,                    \* per task: the handler's local variables
    out,                    \* per task: the response it produced
    registered,             \* history: the record each successful register stored
    updated,                \* history: ids whose record update_user has changed
    seen,                   \* history, per task: the store as its guard was granted
    queue,                  \* the tasks in the RwLock's wait queue, first come first
    orders,                 \* history: the OrderResponses of the orders processed
    issued_to               \* history: the id of the user each reset token was issued for

vars == <<users, password_reset_tokens, now, jwt_secret, nextId, nextToken,
          sessions, resp, consumed, issued_at, password_set, writer, readers, pc,
          req, loc, out, registered, updated, seen, queue, orders, issued_to>>

storeVars == <<users, password_reset_tokens, now, jwt_secret, nextId, nextToken,
               sessions, resp, consumed, issued_at, password_set>>
taskVars == <<writer, readers, pc, req, loc, out, registered, updated, seen,
              queue, orders, issued_to>>

----------------------------------------------------------------------------
(* Bounds of the model *)

\* user ids handed out by Uuid::new_v4() are 1..MaxUsers
MaxUsers == 2
\* reset tokens handed out by Uuid::new_v4() are 1..MaxTokens
MaxTokens == 2
\* session tokens the clients keep
MaxSessions == 1
\* concurrent request tasks
NumTasks == 2

(* Program constants *)
MinPasswordLen == 8
MaxPasswordLen == 128
SecondsPerHour == 3600
ResetTtlHours == 1
DefaultTtlHours == 24
\* jsonwebtoken's Validation::new: leeway of 60 seconds, validate_exp
JwtLeeway == 60

None == <<>>
Some(x) == <<x>>
IsSome(o) == Len(o) = 1
Unwrap(o) == o[1]

----------------------------------------------------------------------------
(* Input alphabets *)

EmailA == <<"a", "@", "x", ".", "c">>
EmailB == <<"b", "@", "x", ".", "c">>
EmailRoot == <<"r", "@", "x", ".", "c">>
EmailBad == <<"b", "a", "d">>
Pw1 == <<"P", "a", "s", "s", "w", "0", "r", "!">>
Pw2 == <<"S", "e", "c", "r", "3", "t", "?", "x">>
PwWeak == <<"w", "e", "a", "k">>

Emails == {EmailA, EmailB, EmailBad}
Names == {"Alice", "Bob"}
Passwords == {Pw1, Pw2, PwWeak}
\* SaltString::generate(&mut OsRng): the salts the model draws
Salts == {"salt"}
Ids == 1..MaxUsers
TokenIds == 1..MaxTokens
Secrets == {"k1", "k2"}
\* the instants the clock is sampled at: two issue times and the expiry, one
\* hour later, of the reset tokens issued at them
Instants == {0, 1, 3600, 3601}

----------------------------------------------------------------------------
(* models/user.rs: policy validators *)

UppercaseChars == {"A", "B", "C", "D", "E", "F", "G", "H", "I", "J", "K", "L", "M",
                   "N", "O", "P", "Q", "R", "S", "T", "U", "V", "W", "X", "Y", "Z"}
LowercaseChars == {"a", "b", "c", "d", "e", "f", "g", "h", "i", "j", "k", "l", "m",
                   "n", "o", "p", "q", "r", "s", "t", "u", "v", "w", "x", "y", "z",
                   "e_acute"}
DigitChars == {"0", "1", "2", "3", "4", "5", "6", "7", "8", "9"}
SpecialChars == {"!", "@", "#", "$", "%", "^", "&", "*", "(", ")", "_", "+", "-", "=",
                 "[", "]", "{", "}", "|", ";", ":", ",", ".", "<", ">", "?"}

AnyChar(s, class) == \E i \in 1..Len(s) : s[i] \in class

\* a char is one to four bytes of UTF-8; "e_acute" stands for U+00E9, two bytes
Utf8Len(c) == IF c = "e_acute" THEN 2 ELSE 1

\* str::len: the length of the string in bytes
StrLen(s) ==
    LET count(w) == Cardinality({i \in 1..Len(s) : Utf8Len(s[i]) = w})
    IN  count(1) + 2 * count(2) + 3 * count(3) + 4 * count(4)

Ok == [ok |-> TRUE, err |-> ""]
Err(m) == [ok |-> FALSE, err |-> m]

validate_password_strength(password) ==
    IF StrLen(password) < MinPasswordLen
      THEN Err("Password must be at least 8 characters long")
    ELSE IF StrLen(password) > MaxPasswordLen
      THEN Err("Password must be no more than 128 characters long")
    ELSE IF ~AnyChar(password, UppercaseChars)
      THEN Err("Password must contain at least one uppercase letter")
    ELSE IF ~AnyChar(password, LowercaseChars)
      THEN Err("Password must contain at least one lowercase letter")
    ELSE IF ~AnyChar(password, DigitChars)
      THEN Err("Password must contain at least one digit")
    ELSE IF ~AnyChar(password, SpecialChars)
      THEN Err("Password must contain at least one special character")
    ELSE Ok

\* email.split('@'): the pieces between the '@' characters, left to right
RECURSIVE SplitAt(_)
SplitAt(s) ==
    IF \A i \in 1..Len(s) : s[i] # "@"
      THEN <<s>>
      ELSE LET k == CHOOSE i \in 1..Len(s) :
                        s[i] = "@" /\ \A j \in 1..(i - 1) : s[j] # "@"
           IN <<SubSeq(s, 1, k - 1)>> \o SplitAt(SubSeq(s, k + 1, Len(s)))

\* validate_email that looks for the dot anywhere in the address
validate_email_dot_anywhere(email) ==
    LET parts == SplitAt(email) IN
    IF Len(email) = 0
      THEN Err("Email cannot be empty")
    ELSE IF ~AnyChar(email, {"@"})
      THEN Err("Email must contain @ symbol")
    ELSE IF Len(parts) # 2
      THEN Err("Email must have exactly one @ symbol")
    ELSE IF Len(parts[1]) = 0 \/ Len(parts[2]) = 0
      THEN Err("Email must have non-empty local and domain parts")
    ELSE IF ~AnyChar(email, {"."})
      THEN Err("Email domain must contain at least one dot")
    ELSE Ok

validate_email(email) ==
    LET parts == SplitAt(email) IN
    IF Len(email) = 0
      THEN Err("Email cannot be empty")
    ELSE IF ~AnyChar(email, {"@"})
      THEN Err("Email must contain @ symbol")
    ELSE IF Len(parts) # 2
      THEN Err("Email must have exactly one @ symbol")
    ELSE IF Len(parts[1]) = 0 \/ Len(parts[2]) = 0
      THEN Err("Email must have non-empty local and domain parts")
    ELSE IF ~AnyChar(parts[2], {"."})
      THEN Err("Email domain must contain at least one dot")
    ELSE Ok

----------------------------------------------------------------------------
(* models/user.rs: credential engine *)

\* Argon2id PHC string: the algorithm tag, the salt and the salted digest
hash_password(password, salt) ==
    [alg |-> "argon2id", salt |-> salt, digest |-> <<salt, password>>]

\* verify_password that takes a malformed hash for a mismatch
verify_password_conflates(hash, password) ==
    IF hash.alg # "argon2id"
      THEN [ok |-> TRUE, valid |-> FALSE]
      ELSE [ok |-> TRUE, valid |-> (hash.digest = <<hash.salt, password>>)]

\* Ok(true) / Ok(false), or Err when the stored string is no PHC string
verify_password(hash, password) ==
    IF hash.alg # "argon2id"
      THEN [ok |-> FALSE, valid |-> FALSE]
      ELSE [ok |-> TRUE, valid |-> (hash.digest = <<hash.salt, password>>)]

----------------------------------------------------------------------------
(* models/user.rs: User *)

User_new(id, email, name, password, salt) ==
    LET ve == validate_email(email)
        vp == validate_password_strength(password)
    IN  IF ~ve.ok THEN [ok |-> FALSE, err |-> ve.err, user |-> None]
        ELSE IF ~vp.ok THEN [ok |-> FALSE, err |-> vp.err, user |-> None]
        ELSE [ok |-> TRUE, err |-> "",
              user |-> Some([id |-> id, email |-> email, name |-> name,
                             password_hash |-> hash_password(password, salt),
                             created_at |-> now, updated_at |-> now,
                             is_admin |-> FALSE])]

\* User::update that also resets the role to customer
User_update_drops_admin(user, email, name) ==
    [user EXCEPT !.email = IF IsSome(email) THEN Unwrap(email) ELSE @,
                 !.name = IF IsSome(name) THEN Unwrap(name) ELSE @,
                 !.updated_at = now,
                 !.is_admin = FALSE]

\* User::update that stamps updated_at only when a field is supplied
User_update_stamps_changes(user, email, name) ==
    [user EXCEPT !.email = IF IsSome(email) THEN Unwrap(email) ELSE @,
                 !.name = IF IsSome(name) THEN Unwrap(name) ELSE @,
                 !.updated_at = IF IsSome(email) \/ IsSome(name) THEN now ELSE @]

User_update(user, email, name) ==
    [user EXCEPT !.email = IF IsSome(email) THEN Unwrap(email) ELSE @,
                 !.name = IF IsSome(name) THEN Unwrap(name) ELSE @,
                 !.updated_at = now]

\* User::update_password that validates and touches updated_at but keeps the hash
User_update_password_keeps_hash(user, new_password, salt) ==
    LET vp == validate_password_strength(new_password)
    IN  IF ~vp.ok THEN [ok |-> FALSE, err |-> vp.err, user |-> user]
        ELSE [ok |-> TRUE, err |-> "", user |-> [user EXCEPT !.updated_at = now]]

User_update_password(user, new_password, salt) ==
    LET vp == validate_password_strength(new_password)
    IN  IF ~vp.ok THEN [ok |-> FALSE, err |-> vp.err, user |-> user]
        ELSE [ok |-> TRUE, err |-> "",
              user |-> [user EXCEPT !.password_hash = hash_password(new_password, salt),
                                    !.updated_at = now]]

User_verify_password(user, password) == verify_password(user.password_hash, password)

\* User::set_admin that stamps created_at as well
User_set_admin_restamps(user, is_admin) ==
    [user EXCEPT !.is_admin = is_admin, !.updated_at = now, !.created_at = now]

User_set_admin(user, is_admin) ==
    [user EXCEPT !.is_admin = is_admin, !.updated_at = now]

\* to_public that copies the whole record, password hash included
to_public_whole_record(user) == user

to_public(user) ==
    [id |-> user.id, email |-> user.email, name |-> user.name,
     created_at |-> user.created_at, updated_at |-> user.updated_at,
     is_admin |-> user.is_admin]

----------------------------------------------------------------------------
(* src/auth.rs: JWT issuer / verifier *)

\* Uuid::to_string and str::parse::<Uuid>
UuidToString(id) == <<"uuid", id>>
ParseUuid(s) == IF Len(s) = 2 /\ s[1] = "uuid" THEN Some(s[2]) ELSE None

get_jwt_secret == jwt_secret

\* jsonwebtoken::encode with Header::default() (HS256): payload and HMAC
encode(claims, secret) ==
    [alg |-> "HS256", claims |-> claims, sig |-> <<secret, claims>>]

\* decode that does not check the signature
decode_skips_signature(token, secret) ==
    IF token.alg # "HS256"
      THEN [ok |-> FALSE, err |-> "InvalidAlgorithm", claims |-> None]
    ELSE IF token.claims.exp < now - JwtLeeway
      THEN [ok |-> FALSE, err |-> "ExpiredSignature", claims |-> None]
    ELSE [ok |-> TRUE, err |-> "", claims |-> Some(token.claims)]

\* jsonwebtoken::decode under Validation::new(HS256): the signature, the
\* algorithm, then exp against the clock with the default leeway
decode(token, secret) ==
    IF token.sig # <<secret, token.claims>>
      THEN [ok |-> FALSE, err |-> "InvalidSignature", claims |-> None]
    ELSE IF token.alg # "HS256"
      THEN [ok |-> FALSE, err |-> "InvalidAlgorithm", claims |-> None]
    ELSE IF token.claims.exp < now - JwtLeeway
      THEN [ok |-> FALSE, err |-> "ExpiredSignature", claims |-> None]
    ELSE [ok |-> TRUE, err |-> "", claims |-> Some(token.claims)]

\* generate_token that reports the ttl in hours
generate_token_reports_hours(user_id, email, name, is_admin, expires_in_hours) ==
    LET secret == get_jwt_secret
        expires_in == IF IsSome(expires_in_hours) THEN Unwrap(expires_in_hours)
                      ELSE DefaultTtlHours
        claims == [sub |-> UuidToString(user_id), email |-> email, name |-> name,
                   admin |-> is_admin,
                   exp |-> now + expires_in * SecondsPerHour,
                   iat |-> now]
    IN  [token |-> encode(claims, secret),
         expires_in |-> expires_in,
         token_type |-> "Bearer"]

generate_token(user_id, email, name, is_admin, expires_in_hours) ==
    LET secret == get_jwt_secret
        expires_in == IF IsSome(expires_in_hours) THEN Unwrap(expires_in_hours)
                      ELSE DefaultTtlHours
        claims == [sub |-> UuidToString(user_id), email |-> email, name |-> name,
                   admin |-> is_admin,
                   exp |-> now + expires_in * SecondsPerHour,
                   iat |-> now]
    IN  [token |-> encode(claims, secret),
         expires_in |-> expires_in * SecondsPerHour,
         token_type |-> "Bearer"]

validate_token(token) == decode(token, get_jwt_secret)

\* An Authorization header: absent, or a scheme and a token
NoHeader == None
Bearer(token) == Some([scheme |-> "Bearer ", token |-> token])
extract_token_from_header(auth_header) ==
    IF auth_header.scheme = "Bearer " THEN Some(auth_header.token) ELSE None

----------------------------------------------------------------------------
(* HTTP status codes and responses *)

StatusOk == 200
StatusBadRequest == 400
StatusUnauthorized == 401
StatusForbidden == 403
StatusNotFound == 404
StatusInternalServerError == 500

\* what a handler sends back: status, message, and the optional payloads
Response(status, message, user, token, listing) ==
    [status |-> status, message |-> message, user |-> user, token |-> token,
     listing |-> listing]
MessageResponse(status, message) == Response(status, message, None, None, None)

----------------------------------------------------------------------------
(* src/middleware.rs *)

auth_middleware(headers) ==
    IF ~IsSome(headers) THEN [status |-> StatusUnauthorized, claims |-> None]
    ELSE LET token == extract_token_from_header(Unwrap(headers)) IN
         IF ~IsSome(token) THEN [status |-> StatusUnauthorized, claims |-> None]
         ELSE LET v == validate_token(Unwrap(token)) IN
              IF ~v.ok THEN [status |-> StatusUnauthorized, claims |-> None]
              ELSE [status |-> StatusOk, claims |-> v.claims]

\* admin_middleware that forgets the admin test
admin_middleware_any_user(headers) ==
    IF ~IsSome(headers) THEN [status |-> StatusUnauthorized, claims |-> None]
    ELSE LET token == extract_token_from_header(Unwrap(headers)) IN
         IF ~IsSome(token) THEN [status |-> StatusUnauthorized, claims |-> None]
         ELSE LET v == validate_token(Unwrap(token)) IN
              IF ~v.ok THEN [status |-> StatusUnauthorized, claims |-> None]
              ELSE [status |-> StatusOk, claims |-> v.claims]

admin_middleware(headers) ==
    IF ~IsSome(headers) THEN [status |-> StatusUnauthorized, claims |-> None]
    ELSE LET token == extract_token_from_header(Unwrap(headers)) IN
         IF ~IsSome(token) THEN [status |-> StatusUnauthorized, claims |-> None]
         ELSE LET v == validate_token(Unwrap(token)) IN
              IF ~v.ok THEN [status |-> StatusUnauthorized, claims |-> None]
              ELSE IF ~Unwrap(v.claims).admin
                THEN [status |-> StatusForbidden, claims |-> None]
              ELSE [status |-> StatusOk, claims |-> v.claims]

----------------------------------------------------------------------------
(* endpoints/auth.rs: UserStore *)

Insert(m, k, v) == [x \in DOMAIN m \cup {k} |-> IF x = k THEN v ELSE m[x]]
Remove(m, k) == [x \in DOMAIN m \ {k} |-> m[x]]
EmptyMap == [x \in {} |-> x]

\* self.users.iter().find(|(_, user)| &user.id == user_id).map(|(email, _)| email)
FindKeyById(us, user_id) ==
    LET keys == {e \in DOMAIN us : us[e].id = user_id}
    IN  IF keys = {} THEN None ELSE Some(CHOOSE e \in keys : TRUE)

\* Result<_, String> of a store method together with the store it leaves
StoreOk(us, prt, message, user, token) ==
    [users |-> us, tokens |-> prt, ok |-> TRUE, message |-> message,
     user |-> user, token |-> token]
StoreErr(us, prt, message) ==
    [users |-> us, tokens |-> prt, ok |-> FALSE, message |-> message,
     user |-> None, token |-> None]

\* register, lines 165-184: the existence check, User::new and the token
register_check(us, request, id, salt) ==
    IF request.email \in DOMAIN us
      THEN [ok |-> FALSE, err |-> "User with this email already exists",
            user |-> None, token |-> None]
    ELSE LET n == User_new(id, request.email, request.name, request.password, salt) IN
         IF ~n.ok THEN [ok |-> FALSE, err |-> n.err, user |-> None, token |-> None]
         ELSE LET user == Unwrap(n.user) IN
              [ok |-> TRUE, err |-> "", user |-> n.user,
               token |-> Some(generate_token(user.id, user.email, user.name,
                                             user.is_admin, None))]

\* register, lines 186-193: the insert under the request's email
register(us, prt, request, id, salt) ==
    LET c == register_check(us, request, id, salt) IN
    IF ~c.ok THEN StoreErr(us, prt, c.err)
    ELSE StoreOk(Insert(us, request.email, Unwrap(c.user)), prt,
                 "User registered successfully",
                 Some(to_public(Unwrap(c.user))), c.token)

create_admin(us, prt, request, id, salt) ==
    IF request.email \in DOMAIN us
      THEN StoreErr(us, prt, "User with this email already exists")
    ELSE LET n == User_new(id, request.email, request.name, request.password, salt) IN
         IF ~n.ok THEN StoreErr(us, prt, n.err)
         ELSE LET user == User_set_admin(Unwrap(n.user), TRUE)
              IN  StoreOk(Insert(us, request.email, user), prt,
                          "Admin user created successfully",
                          Some(to_public(user)), None)

\* login that tells a missing user from a wrong password
login_reveals_missing(us, prt, request) ==
    IF request.email \notin DOMAIN us
      THEN StoreErr(us, prt, "User not found")
    ELSE LET user == us[request.email]
             v == User_verify_password(user, request.password)
         IN  IF ~v.ok THEN StoreErr(us, prt, "Authentication error")
             ELSE IF ~v.valid THEN StoreErr(us, prt, "Invalid email or password")
             ELSE StoreOk(us, prt, "Login successful", Some(to_public(user)),
                          Some(generate_token(user.id, user.email, user.name,
                                              user.is_admin, None)))

login(us, prt, request) ==
    IF request.email \notin DOMAIN us
      THEN StoreErr(us, prt, "Invalid email or password")
    ELSE LET user == us[request.email]
             v == User_verify_password(user, request.password)
         IN  IF ~v.ok THEN StoreErr(us, prt, "Authentication error")
             ELSE IF ~v.valid THEN StoreErr(us, prt, "Invalid email or password")
             ELSE StoreOk(us, prt, "Login successful", Some(to_public(user)),
                          Some(generate_token(user.id, user.email, user.name,
                                              user.is_admin, None)))

get_user_by_id(us, user_id) ==
    LET k == FindKeyById(us, user_id)
    IN  IF IsSome(k) THEN Some(us[Unwrap(k)]) ELSE None

get_user_by_email(us, email) ==
    IF email \in DOMAIN us THEN Some(us[email]) ELSE None

\* update_user, lines 271-296: the conflict check and the lookup of the key
\* update_user without the conflict check
update_user_check_no_conflict(us, user_id, request) ==
    LET current_email == FindKeyById(us, user_id) IN
    IF ~IsSome(current_email)
      THEN [ok |-> FALSE, err |-> "User not found", old_email |-> None]
    ELSE [ok |-> TRUE, err |-> "", old_email |-> current_email]

update_user_check(us, user_id, request) ==
    LET current_email == FindKeyById(us, user_id) IN
    IF IsSome(request.email) /\ ~IsSome(current_email)
      THEN [ok |-> FALSE, err |-> "User not found", old_email |-> None]
    ELSE IF IsSome(request.email) /\ Unwrap(request.email) # Unwrap(current_email)
            /\ Unwrap(request.email) \in DOMAIN us
      THEN [ok |-> FALSE, err |-> "Email already in use", old_email |-> None]
    ELSE IF ~IsSome(current_email)
      THEN [ok |-> FALSE, err |-> "User not found", old_email |-> None]
    ELSE [ok |-> TRUE, err |-> "", old_email |-> current_email]

\* update_user, lines 299-300: the record is changed in place under its old key
update_user_mutate(us, old_email, request) ==
    [us EXCEPT ![old_email] = User_update(@, request.email, request.name)]

\* update_user that leaves the record under its old key
update_user_never_relocates(old_email, request) == FALSE

\* update_user, lines 303-304: does the HashMap key change
update_user_relocates(old_email, request) ==
    IsSome(request.email) /\ Unwrap(request.email) # old_email

update_user(us, prt, user_id, request) ==
    LET c == update_user_check(us, user_id, request) IN
    IF ~c.ok THEN StoreErr(us, prt, c.err)
    ELSE LET old_email == Unwrap(c.old_email)
             us1 == update_user_mutate(us, old_email, request)
         IN  IF update_user_relocates(old_email, request)
               THEN LET new_email == Unwrap(request.email)
                        user == us1[old_email]
                        us2 == Insert(Remove(us1, old_email), new_email, user)
                    IN  StoreOk(us2, prt, "Profile updated successfully",
                                Some(to_public(us2[new_email])), None)
               ELSE StoreOk(us1, prt, "Profile updated successfully",
                            Some(to_public(us1[old_email])), None)

\* update_password that does not verify the current password
update_password_skips_verify(us, prt, user_id, request, salt) ==
    LET k == FindKeyById(us, user_id) IN
    IF ~IsSome(k) THEN StoreErr(us, prt, "User not found")
    ELSE LET r == User_update_password(us[Unwrap(k)], request.new_password, salt) IN
         IF ~r.ok THEN StoreErr(us, prt, r.err)
         ELSE StoreOk([us EXCEPT ![Unwrap(k)] = r.user], prt,
                      "Password updated successfully", None, None)

update_password(us, prt, user_id, request, salt) ==
    LET k == FindKeyById(us, user_id) IN
    IF ~IsSome(k) THEN StoreErr(us, prt, "User not found")
    ELSE LET user == us[Unwrap(k)]
             v == User_verify_password(user, request.current_password)
         IN  IF ~v.ok THEN StoreErr(us, prt, "Authentication error")
             ELSE IF ~v.valid THEN StoreErr(us, prt, "Current password is incorrect")
             ELSE LET r == User_update_password(user, request.new_password, salt) IN
                  IF ~r.ok THEN StoreErr(us, prt, r.err)
                  ELSE StoreOk([us EXCEPT ![Unwrap(k)] = r.user], prt,
                               "Password updated successfully", None, None)

\* delete_user that drops every record of the directory
delete_user_drops_all(us, prt, user_id) ==
    LET k == FindKeyById(us, user_id) IN
    IF ~IsSome(k) THEN StoreErr(us, prt, "User not found")
    ELSE StoreOk(EmptyMap, prt, "User deleted successfully", None, None)

delete_user(us, prt, user_id) ==
    LET k == FindKeyById(us, user_id) IN
    IF ~IsSome(k) THEN StoreErr(us, prt, "User not found")
    ELSE StoreOk(Remove(us, Unwrap(k)), prt, "User deleted successfully", None, None)

update_user_role(us, prt, user_id, request) ==
    LET k == FindKeyById(us, user_id) IN
    IF ~IsSome(k) THEN StoreErr(us, prt, "User not found")
    ELSE LET user == User_set_admin(us[Unwrap(k)], request.is_admin)
         IN  StoreOk([us EXCEPT ![Unwrap(k)] = user], prt,
                     "Role updated successfully", Some(to_public(user)), None)

list_users(us) ==
    LET listed == {to_public(us[e]) : e \in DOMAIN us}
    IN  [users |-> listed, total |-> Cardinality(DOMAIN us)]

\* generate_password_reset_token that replaces the earlier tokens of the email
generate_password_reset_token_replacing(us, prt, email, token) ==
    IF email \notin DOMAIN us
      THEN StoreErr(us, prt, "User not found")
    ELSE LET expiry == now + ResetTtlHours * SecondsPerHour
             others == [t \in {x \in DOMAIN prt : prt[x].email # email} |-> prt[t]]
         IN  StoreOk(us, Insert(others, token, [email |-> email, expiry |-> expiry]),
                     "", None, Some(token))

\* generate_password_reset_token that sweeps the expired tokens when it issues one
generate_password_reset_token_sweeping(us, prt, email, token) ==
    IF email \notin DOMAIN us
      THEN StoreErr(us, prt, "User not found")
    ELSE LET expiry == now + ResetTtlHours * SecondsPerHour
             live == [t \in {x \in DOMAIN prt : ~(now > prt[x].expiry)} |-> prt[t]]
         IN  StoreOk(us, Insert(live, token, [email |-> email, expiry |-> expiry]),
                     "", None, Some(token))

generate_password_reset_token(us, prt, email, token) ==
    IF email \notin DOMAIN us
      THEN StoreErr(us, prt, "User not found")
    ELSE LET expiry == now + ResetTtlHours * SecondsPerHour
         IN  StoreOk(us, Insert(prt, token, [email |-> email, expiry |-> expiry]),
                     "", None, Some(token))

\* reset_password that leaves a used token in the ledger
reset_password_keeps_token(us, prt, request, salt) ==
    IF request.token \notin DOMAIN prt
      THEN StoreErr(us, prt, "Invalid or expired reset token")
    ELSE LET email == prt[request.token].email
             expiry == prt[request.token].expiry
         IN  IF now > expiry
               THEN StoreErr(us, Remove(prt, request.token), "Reset token has expired")
             ELSE IF email \notin DOMAIN us
               THEN StoreErr(us, prt, "User not found")
             ELSE LET r == User_update_password(us[email], request.new_password, salt) IN
                  IF ~r.ok THEN StoreErr(us, prt, r.err)
                  ELSE StoreOk([us EXCEPT ![email] = r.user], prt,
                               "Password reset successfully", None, None)

\* reset_password that compares the clock with the expiry the wrong way round
reset_password_expiry_inverted(us, prt, request, salt) ==
    IF request.token \notin DOMAIN prt
      THEN StoreErr(us, prt, "Invalid or expired reset token")
    ELSE LET email == prt[request.token].email
             expiry == prt[request.token].expiry
         IN  IF now < expiry
               THEN StoreErr(us, Remove(prt, request.token), "Reset token has expired")
             ELSE IF email \notin DOMAIN us
               THEN StoreErr(us, prt, "User not found")
             ELSE LET r == User_update_password(us[email], request.new_password, salt) IN
                  IF ~r.ok THEN StoreErr(us, prt, r.err)
                  ELSE StoreOk([us EXCEPT ![email] = r.user],
                               Remove(prt, request.token),
                               "Password reset successfully", None, None)

\* reset_password that drops the token also when the rotation fails
reset_password_drops_on_failure(us, prt, request, salt) ==
    IF request.token \notin DOMAIN prt
      THEN StoreErr(us, prt, "Invalid or expired reset token")
    ELSE LET email == prt[request.token].email
             expiry == prt[request.token].expiry
         IN  IF now > expiry
               THEN StoreErr(us, Remove(prt, request.token), "Reset token has expired")
             ELSE IF email \notin DOMAIN us
               THEN StoreErr(us, Remove(prt, request.token), "User not found")
             ELSE LET r == User_update_password(us[email], request.new_password, salt) IN
                  IF ~r.ok THEN StoreErr(us, Remove(prt, request.token), r.err)
                  ELSE StoreOk([us EXCEPT ![email] = r.user],
                               Remove(prt, request.token),
                               "Password reset successfully", None, None)

reset_password(us, prt, request, salt) ==
    IF request.token \notin DOMAIN prt
      THEN StoreErr(us, prt, "Invalid or expired reset token")
    ELSE LET email == prt[request.token].email
             expiry == prt[request.token].expiry
         IN  IF now > expiry
               THEN StoreErr(us, Remove(prt, request.token), "Reset token has expired")
             ELSE IF email \notin DOMAIN us
               THEN StoreErr(us, prt, "User not found")
             ELSE LET r == User_update_password(us[email], request.new_password, salt) IN
                  IF ~r.ok THEN StoreErr(us, prt, r.err)
                  ELSE StoreOk([us EXCEPT ![email] = r.user],
                               Remove(prt, request.token),
                               "Password reset successfully", None, None)

----------------------------------------------------------------------------
(* endpoints/auth.rs, endpoints/admin.rs: the handlers, each run under one
   acquisition of the store's lock.  A handler yields the store it leaves and
   the HTTP response. *)

Handled(us, prt, http) == [users |-> us, tokens |-> prt, http |-> http]

\* Ok(response) => Ok(Json(response)); Err(error) => Err((status, message))
Respond(r, err_status) ==
    Handled(r.users, r.tokens,
            IF r.ok THEN Response(StatusOk, r.message, r.user, r.token, None)
            ELSE MessageResponse(err_status, r.message))

register_endpoint(us, prt, request, id, salt) ==
    Respond(register(us, prt, request, id, salt), StatusBadRequest)

login_endpoint(us, prt, request) ==
    Respond(login(us, prt, request), StatusUnauthorized)

\* logout_endpoint that closes the caller's account
logout_endpoint_wipes(us, prt) ==
    Handled(EmptyMap, EmptyMap,
            MessageResponse(StatusOk, "Logged out successfully. Please discard your token."))

logout_endpoint(us, prt) ==
    Handled(us, prt,
            MessageResponse(StatusOk, "Logged out successfully. Please discard your token."))

me_endpoint(us, prt, claims) ==
    LET user_id == ParseUuid(claims.sub) IN
    IF ~IsSome(user_id)
      THEN Handled(us, prt, MessageResponse(StatusInternalServerError, "Invalid user ID"))
    ELSE LET user == get_user_by_id(us, Unwrap(user_id)) IN
         IF ~IsSome(user)
           THEN Handled(us, prt, MessageResponse(StatusNotFound, "User not found"))
         ELSE Handled(us, prt,
                      Response(StatusOk, "User profile retrieved successfully",
                               Some(to_public(Unwrap(user))), None, None))

\* the check get, update and delete share: admin, or the caller's own id
\* the check without the admin clause
denies_access_self_only(claims, current_user_id, user_id) ==
    current_user_id # user_id

denies_access(claims, current_user_id, user_id) ==
    ~claims.admin /\ current_user_id # user_id

\* get_user_endpoint that looks the target up before it checks the caller
get_user_endpoint_lookup_first(us, prt, claims, user_id) ==
    LET current_user_id == ParseUuid(claims.sub)
        user == get_user_by_id(us, user_id)
    IN  IF ~IsSome(current_user_id)
          THEN Handled(us, prt, MessageResponse(StatusInternalServerError, "Invalid user ID"))
        ELSE IF ~IsSome(user)
          THEN Handled(us, prt, MessageResponse(StatusNotFound, "User not found"))
        ELSE IF denies_access(claims, Unwrap(current_user_id), user_id)
          THEN Handled(us, prt, MessageResponse(StatusForbidden, "Access denied"))
        ELSE Handled(us, prt,
                     Response(StatusOk, "User retrieved successfully",
                              Some(to_public(Unwrap(user))), None, None))

get_user_endpoint(us, prt, claims, user_id) ==
    LET current_user_id == ParseUuid(claims.sub) IN
    IF ~IsSome(current_user_id)
      THEN Handled(us, prt, MessageResponse(StatusInternalServerError, "Invalid user ID"))
    ELSE IF denies_access(claims, Unwrap(current_user_id), user_id)
      THEN Handled(us, prt, MessageResponse(StatusForbidden, "Access denied"))
    ELSE LET user == get_user_by_id(us, user_id) IN
         IF ~IsSome(user)
           THEN Handled(us, prt, MessageResponse(StatusNotFound, "User not found"))
         ELSE Handled(us, prt,
                      Response(StatusOk, "User retrieved successfully",
                               Some(to_public(Unwrap(user))), None, None))

update_user_endpoint(us, prt, claims, user_id, update_request) ==
    LET current_user_id == ParseUuid(claims.sub) IN
    IF ~IsSome(current_user_id)
      THEN Handled(us, prt, MessageResponse(StatusInternalServerError, "Invalid user ID"))
    ELSE IF denies_access(claims, Unwrap(current_user_id), user_id)
      THEN Handled(us, prt, MessageResponse(StatusForbidden, "Access denied"))
    ELSE Respond(update_user(us, prt, user_id, update_request), StatusBadRequest)

\* update_password_endpoint that lets an admin through as the other handlers do
update_password_endpoint_admin_too(us, prt, claims, user_id, password_request, salt) ==
    LET current_user_id == ParseUuid(claims.sub) IN
    IF ~IsSome(current_user_id)
      THEN Handled(us, prt, MessageResponse(StatusInternalServerError, "Invalid user ID"))
    ELSE IF denies_access(claims, Unwrap(current_user_id), user_id)
      THEN Handled(us, prt, MessageResponse(StatusForbidden, "Access denied"))
    ELSE Respond(update_password(us, prt, user_id, password_request, salt),
                 StatusBadRequest)

update_password_endpoint(us, prt, claims, user_id, password_request, salt) ==
    LET current_user_id == ParseUuid(claims.sub) IN
    IF ~IsSome(current_user_id)
      THEN Handled(us, prt, MessageResponse(StatusInternalServerError, "Invalid user ID"))
    ELSE IF Unwrap(current_user_id) # user_id
      THEN Handled(us, prt, MessageResponse(StatusForbidden, "Access denied"))
    ELSE Respond(update_password(us, prt, user_id, password_request, salt),
                 StatusBadRequest)

delete_user_endpoint(us, prt, claims, user_id) ==
    LET current_user_id == ParseUuid(claims.sub) IN
    IF ~IsSome(current_user_id)
      THEN Handled(us, prt, MessageResponse(StatusInternalServerError, "Invalid user ID"))
    ELSE IF denies_access(claims, Unwrap(current_user_id), user_id)
      THEN Handled(us, prt, MessageResponse(StatusForbidden, "Access denied"))
    ELSE Respond(delete_user(us, prt, user_id), StatusNotFound)

list_users_endpoint(us, prt) ==
    Handled(us, prt, Response(StatusOk, "", None, None, Some(list_users(us))))

update_user_role_endpoint(us, prt, user_id, role_request) ==
    Respond(update_user_role(us, prt, user_id, role_request), StatusNotFound)

create_admin_endpoint(us, prt, request, id, salt) ==
    Respond(create_admin(us, prt, request, id, salt), StatusBadRequest)

\* the token is logged (tracing::info!) and not put into the response
forgot_password_endpoint(us, prt, request, token) ==
    LET r == generate_password_reset_token(us, prt, request.email, token) IN
    IF r.ok
      THEN Handled(r.users, r.tokens,
                   MessageResponse(StatusOk,
                       "Password reset instructions have been sent to your email"))
      ELSE Handled(r.users, r.tokens, MessageResponse(StatusNotFound, r.message))

reset_password_endpoint(us, prt, request, salt) ==
    Respond(reset_password(us, prt, request, salt), StatusBadRequest)

----------------------------------------------------------------------------
(* The server: each request is served by its handler in one step *)

RegisterRequests ==
    [email : Emails, name : Names, password : Passwords]
LoginRequests == [email : Emails, password : Passwords]
UpdateProfileRequests ==
    [name : {None} \cup {Some(n) : n \in Names},
     email : {None} \cup {Some(e) : e \in Emails}]
UpdatePasswordRequests == [current_password : Passwords, new_password : Passwords]
UpdateRoleRequests == [is_admin : BOOLEAN]
ForgotPasswordRequests == [email : Emails]
ResetPasswordRequests == [token : TokenIds, new_password : Passwords]

\* the Authorization headers clients send: none, or a session token they hold
PresentedHeaders == {NoHeader} \cup {Bearer(t.token) : t \in sessions}

\* main.rs: BOOTSTRAP_ADMIN_EMAIL, BOOTSTRAP_ADMIN_NAME, BOOTSTRAP_ADMIN_PASSWORD
BootstrapEnv == {[email |-> EmailRoot, name |-> "Root", password |-> Pw1]}

\* UserStore::new_with_admin: the result of create_admin is dropped
new_with_admin(env, id, salt) == create_admin(EmptyMap, EmptyMap, env, id, salt)

NoTasks == [t \in 1..NumTasks |-> None]
TasksIdle ==
    /\ writer = 0
    /\ readers = {}
    /\ pc = [t \in 1..NumTasks |-> "idle"]
    /\ req = NoTasks
    /\ loc = NoTasks
    /\ out = NoTasks
    /\ registered = EmptyMap
    /\ updated = {}
    /\ seen = NoTasks
    /\ queue = <<>>
    /\ orders = <<>>
    /\ issued_to = EmptyMap

Init ==
    /\ now = 0
    /\ jwt_secret = "k1"
    /\ \E env \in BootstrapEnv, salt \in Salts :
         LET r == new_with_admin(env, 1, salt) IN
         /\ users = r.users
         /\ nextId = IF r.ok THEN 2 ELSE 1
         /\ password_set = IF r.ok THEN Insert(EmptyMap, 1, env.password) ELSE EmptyMap
    /\ password_reset_tokens = EmptyMap
    /\ nextToken = 1
    /\ sessions = {}
    /\ resp = [op |-> "start", input |-> None, http |-> MessageResponse(StatusOk, "")]
    /\ consumed = {}
    /\ issued_at = EmptyMap
    /\ TasksIdle

Serve(op, input, h) ==
    /\ users' = h.users
    /\ password_reset_tokens' = h.tokens
    /\ resp' = [op |-> op, input |-> input, http |-> h.http]

\* a route behind a middleware: the handler runs only when the middleware passes
Layered(m, op, input, H(_)) ==
    IF m.status # StatusOk
      THEN Serve(op, input,
                 Handled(users, password_reset_tokens, MessageResponse(m.status, "")))
      ELSE Serve(op, input, H(Unwrap(m.claims)))

\* the client may keep the session token of a response
Keep(h, keep) ==
    sessions' = IF keep /\ IsSome(h.http.token) /\ Cardinality(sessions) < MaxSessions
                  THEN sessions \cup {Unwrap(h.http.token)}
                  ELSE sessions

Register(request, salt, keep) ==
    LET h == register_endpoint(users, password_reset_tokens, request, nextId, salt) IN
    /\ h.http.status = StatusOk => nextId <= MaxUsers
    /\ Serve("register", request, h)
    /\ nextId' = IF h.http.status = StatusOk THEN nextId + 1 ELSE nextId
    /\ Keep(h, keep)
    /\ password_set' = IF h.http.status = StatusOk
                         THEN Insert(password_set, Unwrap(h.http.user).id, request.password)
                         ELSE password_set
    /\ UNCHANGED <<now, jwt_secret, nextToken, consumed, issued_at, taskVars>>

Login(request, keep) ==
    LET h == login_endpoint(users, password_reset_tokens, request) IN
    /\ Serve("login", request, h)
    /\ Keep(h, keep)
    /\ UNCHANGED <<now, jwt_secret, nextId, nextToken, consumed, issued_at, password_set, taskVars>>

Logout ==
    /\ Serve("logout", None, logout_endpoint(users, password_reset_tokens))
    /\ UNCHANGED <<now, jwt_secret, nextId, nextToken, sessions, consumed, issued_at, password_set, taskVars>>

Me(headers) ==
    /\ Layered(auth_middleware(headers), "me", [headers |-> headers],
               LAMBDA claims : me_endpoint(users, password_reset_tokens, claims))
    /\ UNCHANGED <<now, jwt_secret, nextId, nextToken, sessions, consumed, issued_at, password_set, taskVars>>

GetUser(headers, user_id) ==
    /\ Layered(auth_middleware(headers), "get_user",
               [headers |-> headers, user_id |-> user_id],
               LAMBDA claims :
                   get_user_endpoint(users, password_reset_tokens, claims, user_id))
    /\ UNCHANGED <<now, jwt_secret, nextId, nextToken, sessions, consumed, issued_at, password_set, taskVars>>

UpdateUser(headers, user_id, request) ==
    /\ Layered(auth_middleware(headers), "update_user",
               [headers |-> headers, user_id |-> user_id, request |-> request],
               LAMBDA claims :
                   update_user_endpoint(users, password_reset_tokens, claims,
                                        user_id, request))
    /\ UNCHANGED <<now, jwt_secret, nextId, nextToken, sessions, consumed, issued_at, password_set, taskVars>>

UpdatePassword(headers, user_id, request, salt) ==
    /\ Layered(auth_middleware(headers), "update_password",
               [headers |-> headers, user_id |-> user_id, request |-> request],
               LAMBDA claims :
                   update_password_endpoint(users, password_reset_tokens, claims,
                                            user_id, request, salt))
    /\ password_set' = IF resp'.http.status = StatusOk
                         THEN Insert(password_set, user_id, request.new_password)
                         ELSE password_set
    /\ UNCHANGED <<now, jwt_secret, nextId, nextToken, sessions, consumed, issued_at, taskVars>>

DeleteUser(headers, user_id) ==
    /\ Layered(auth_middleware(headers), "delete_user",
               [headers |-> headers, user_id |-> user_id],
               LAMBDA claims :
                   delete_user_endpoint(users, password_reset_tokens, claims, user_id))
    /\ password_set' = IF resp'.http.status = StatusOk
                         THEN Remove(password_set, user_id)
                         ELSE password_set
    /\ UNCHANGED <<now, jwt_secret, nextId, nextToken, sessions, consumed, issued_at, taskVars>>

ListUsers(headers) ==
    /\ Layered(admin_middleware(headers), "list_users", [headers |-> headers],
               LAMBDA claims : list_users_endpoint(users, password_reset_tokens))
    /\ UNCHANGED <<now, jwt_secret, nextId, nextToken, sessions, consumed, issued_at, password_set, taskVars>>

UpdateUserRole(headers, user_id, request) ==
    /\ Layered(admin_middleware(headers), "update_user_role",
               [headers |-> headers, user_id |-> user_id, request |-> request],
               LAMBDA claims :
                   update_user_role_endpoint(users, password_reset_tokens,
                                             user_id, request))
    /\ UNCHANGED <<now, jwt_secret, nextId, nextToken, sessions, consumed, issued_at, password_set, taskVars>>

CreateAdmin(headers, request, salt) ==
    /\ admin_middleware(headers).status = StatusOk => nextId <= MaxUsers
    /\ Layered(admin_middleware(headers), "create_admin",
               [headers |-> headers, request |-> request],
               LAMBDA claims :
                   create_admin_endpoint(users, password_reset_tokens, request,
                                         nextId, salt))
    /\ nextId' = IF resp'.http.status = StatusOk THEN nextId + 1 ELSE nextId
    /\ password_set' = IF resp'.http.status = StatusOk
                         THEN Insert(password_set, Unwrap(resp'.http.user).id,
                                     request.password)
                         ELSE password_set
    /\ UNCHANGED <<now, jwt_secret, nextToken, sessions, consumed, issued_at, taskVars>>

ForgotPassword(request) ==
    LET h == forgot_password_endpoint(users, password_reset_tokens, request, nextToken) IN
    /\ h.http.status = StatusOk => nextToken <= MaxTokens
    /\ Serve("forgot_password", request, h)
    /\ nextToken' = IF h.http.status = StatusOk THEN nextToken + 1 ELSE nextToken
    /\ issued_at' = IF h.http.status = StatusOk THEN Insert(issued_at, nextToken, now)
                    ELSE issued_at
    /\ issued_to' = IF h.http.status = StatusOk
                      THEN Insert(issued_to, nextToken, users[request.email].id)
                      ELSE issued_to
    /\ UNCHANGED <<now, jwt_secret, nextId, sessions, consumed, password_set, writer,
                   readers, pc, req, loc, out, registered, updated, seen, queue, orders>>

ResetPassword(request, salt) ==
    LET h == reset_password_endpoint(users, password_reset_tokens, request, salt) IN
    /\ Serve("reset_password", request, h)
    /\ consumed' = IF h.http.status = StatusOk THEN consumed \cup {request.token}
                   ELSE consumed
    /\ password_set' =
         IF h.http.status = StatusOk
           THEN Insert(password_set,
                       users[password_reset_tokens[request.token].email].id,
                       request.new_password)
           ELSE password_set
    /\ UNCHANGED <<now, jwt_secret, nextId, nextToken, sessions, issued_at, taskVars>>

\* the clock advances to a later instant
Advance(t) ==
    /\ t > now
    /\ now' = t
    /\ UNCHANGED <<users, password_reset_tokens, jwt_secret, nextId, nextToken,
                   sessions, resp, consumed, issued_at, password_set, taskVars>>

----------------------------------------------------------------------------
(* The password reset flow: forgot-password, reset-password and the clock,
   with the directory changing underneath (register, login, delete). *)

AllEmails == Emails \cup {EmailRoot}
\* the reset tokens a caller can present: every issued one and one never issued
PresentableTokens == 1..(MaxTokens + 1)

NextReset ==
    \/ \E request \in [email : {EmailA}, name : {"Alice"}, password : {Pw1}],
          salt \in Salts : Register(request, salt, FALSE)
    \/ \E request \in [email : {EmailA, EmailRoot}, password : {Pw1, Pw2}] :
           Login(request, FALSE)
    \/ \E request \in [email : {EmailA, EmailRoot}] : ForgotPassword(request)
    \/ \E request \in [token : PresentableTokens, new_password : {Pw2, PwWeak}],
          salt \in Salts : ResetPassword(request, salt)
    \/ \E t \in Instants : Advance(t)

SpecReset == Init /\ [][NextReset]_vars

----------------------------------------------------------------------------
(* Properties of the password reset flow and of login *)

ResetTtl == ResetTtlHours * SecondsPerHour
ResetInputs == [token : PresentableTokens, new_password : Passwords]
Unexpired(token) ==
    token \in DOMAIN password_reset_tokens
    /\ ~(now > password_reset_tokens[token].expiry)
Expired(token) ==
    token \in DOMAIN password_reset_tokens
    /\ now > password_reset_tokens[token].expiry
NeverIssued(token) == token >= nextToken

\* C3: once reset_password has succeeded with a token, reset_password with that
\* token fails in every later state, whatever the new password
C3_ResetOneTimeUse ==
    \A token \in consumed : \A request \in ResetInputs, salt \in Salts :
        request.token = token =>
            LET h == reset_password_endpoint(users, password_reset_tokens, request, salt)
            IN  /\ h.http.status = StatusBadRequest
                /\ h.users = users

\* a consumed token was presented again and refused
C3_Witness ==
    /\ resp.op = "reset_password"
    /\ resp.input.token \in consumed
    /\ resp.http.status = StatusBadRequest
    /\ resp.input.new_password = Pw2

\* C4: reset_password changes a password only for a token that is in the ledger
\* and whose expiry, one hour after it was issued, has not passed; such a token
\* with a policy-conforming password for a stored user succeeds and sets that
\* password; an expired or consumed token changes nothing in the directory
C4_ResetOnlyWithLiveToken ==
    \A request \in ResetInputs, salt \in Salts :
        LET r == reset_password(users, password_reset_tokens, request, salt)
            token == request.token
        IN  /\ r.users # users =>
                /\ token \in DOMAIN password_reset_tokens
                /\ now <= issued_at[token] + ResetTtl
            /\ (token \in DOMAIN password_reset_tokens
                /\ now <= issued_at[token] + ResetTtl
                /\ validate_password_strength(request.new_password).ok
                /\ password_reset_tokens[token].email \in DOMAIN users) =>
                   /\ r.ok
                   /\ User_verify_password(
                          r.users[password_reset_tokens[token].email],
                          request.new_password).valid
            /\ (token \in consumed
                \/ (token \in DOMAIN issued_at /\ now > issued_at[token] + ResetTtl)) =>
                   /\ ~r.ok
                   /\ r.users = users

\* a reset succeeded exactly at the expiry of its token
C4_Witness ==
    /\ resp.op = "reset_password"
    /\ resp.http.status = StatusOk
    /\ now = issued_at[resp.input.token] + ResetTtl
    /\ \E t \in DOMAIN issued_at : now > issued_at[t] + ResetTtl

\* C5 as claimed: a present, unexpired token leaves the ledger whether or not
\* the rotation succeeds, and a failed rotation is reported as a failure
C5_TokenRemovedRegardless ==
    \A request \in ResetInputs, salt \in Salts :
        Unexpired(request.token) =>
            LET r == reset_password(users, password_reset_tokens, request, salt)
            IN  /\ request.token \notin DOMAIN r.tokens
                /\ r.users = users => ~r.ok

\* C6 as claimed: a never issued token and an expired token get the same answer
C6_UniformResetFailure ==
    \A r1, r2 \in ResetInputs, salt \in Salts :
        (NeverIssued(r1.token) /\ Expired(r2.token)) =>
            reset_password_endpoint(users, password_reset_tokens, r1, salt).http
              = reset_password_endpoint(users, password_reset_tokens, r2, salt).http

\* C7: login answers a missing user and a wrong password with the same 401 and
\* the same message
C7_UniformLoginFailure ==
    \A r1, r2 \in [email : AllEmails, password : Passwords] :
        (r1.email \notin DOMAIN users
         /\ r2.email \in DOMAIN users
         /\ ~User_verify_password(users[r2.email], r2.password).valid) =>
            LET h1 == login_endpoint(users, password_reset_tokens, r1)
                h2 == login_endpoint(users, password_reset_tokens, r2)
            IN  /\ h1.http = h2.http
                /\ h1.http.status = StatusUnauthorized
                /\ h1.http.message = "Invalid email or password"

\* a login failed for an email nobody has, while another user is stored
C7_Witness ==
    /\ resp.op = "login"
    /\ resp.http.status = StatusUnauthorized
    /\ resp.input.email \notin DOMAIN users
    /\ DOMAIN users # {}

\* C8 as claimed: forgot-password answers alike for a stored and a missing email
\* and never returns the token
C8_UniformForgotAck ==
    \A r1, r2 \in [email : AllEmails] :
        LET h1 == forgot_password_endpoint(users, password_reset_tokens, r1, nextToken)
            h2 == forgot_password_endpoint(users, password_reset_tokens, r2, nextToken)
        IN  /\ h1.http = h2.http
            /\ h1.http.token = None

----------------------------------------------------------------------------
(* The token issuer and verifier: generate_token is called with a ttl, the
   secret may be replaced, and tokens are presented to the routes behind the
   middlewares as the clock advances. *)

\* the instants the clock is sampled at: around the expiry of a token issued
\* at 0 with ttl 0 or with ttl 1 h, and the end of the leeway after it
TokenInstants == {0, 60, 61, 3600, 3660, 3661}
TtlChoices == {Some(0), Some(1), None}

InitTok ==
    /\ now = 0
    /\ jwt_secret = "k1"
    /\ users = EmptyMap
    /\ nextId = 1
    /\ password_reset_tokens = EmptyMap
    /\ nextToken = 1
    /\ sessions = {}
    /\ resp = [op |-> "start", input |-> None, http |-> MessageResponse(StatusOk, "")]
    /\ consumed = {}
    /\ issued_at = EmptyMap
    /\ password_set = EmptyMap
    /\ TasksIdle

\* a caller of generate_token (login, register, the tests) gets a TokenResponse
GenerateToken(user_id, email, name, is_admin, expires_in_hours) ==
    LET t == generate_token(user_id, email, name, is_admin, expires_in_hours) IN
    /\ Cardinality(sessions) < MaxSessions
    /\ sessions' = sessions \cup {t}
    /\ resp' = [op |-> "generate_token",
                input |-> [user_id |-> user_id, email |-> email, name |-> name,
                           is_admin |-> is_admin,
                           expires_in_hours |-> expires_in_hours, at |-> now],
                http |-> Response(StatusOk, "", None, Some(t), None)]
    /\ UNCHANGED <<users, password_reset_tokens, now, jwt_secret, nextId, nextToken,
                   consumed, issued_at, password_set, taskVars>>

\* the process is restarted with another JWT_SECRET
RotateSecret(secret) ==
    /\ secret # jwt_secret
    /\ jwt_secret' = secret
    /\ UNCHANGED <<users, password_reset_tokens, now, nextId, nextToken, sessions,
                   resp, consumed, issued_at, password_set, taskVars>>

NextTok ==
    \/ \E is_admin \in BOOLEAN, ttl \in TtlChoices :
           GenerateToken(1, EmailA, "Alice", is_admin, ttl)
    \/ \E secret \in Secrets : RotateSecret(secret)
    \/ \E headers \in PresentedHeaders : Me(headers)
    \/ \E headers \in PresentedHeaders : ListUsers(headers)
    \/ \E t \in TokenInstants : Advance(t)

SpecTok == InitTok /\ [][NextTok]_vars

\* C9 as claimed: validate_token accepts a token at time now only if now < exp,
\* with no leeway: a ttl 0 token is refused at once
C9_NoLeeway ==
    \A t \in sessions : validate_token(t.token).ok => now < t.token.claims.exp

\* the headers a request can carry: none, 'Bearer <token>', or a held token
\* under another scheme
AnyHeaders ==
    PresentedHeaders \cup {Some([scheme |-> "Basic ", token |-> t.token]) : t \in sessions}

\* the header has the form 'Bearer <token>' and validate_token accepts the token
Acceptable(headers) ==
    /\ IsSome(headers)
    /\ Unwrap(headers).scheme = "Bearer "
    /\ validate_token(Unwrap(headers).token).ok

\* the answer of a layer that lets a request through with these claims
Admits(m, claims) == m = [status |-> StatusOk, claims |-> Some(claims)]
Refuses(m, status) == m = [status |-> status, claims |-> None]

C12_Layers ==
    \A headers \in AnyHeaders :
        /\ IF Acceptable(headers)
             THEN Admits(auth_middleware(headers), Unwrap(headers).token.claims)
             ELSE Refuses(auth_middleware(headers), StatusUnauthorized)
        /\ IF ~Acceptable(headers)
             THEN Refuses(admin_middleware(headers), StatusUnauthorized)
           ELSE IF ~Unwrap(headers).token.claims.admin
             THEN Refuses(admin_middleware(headers), StatusForbidden)
           ELSE Admits(admin_middleware(headers), Unwrap(headers).token.claims)

\* a request served on the protected route /auth/me or the admin-only route
\* /users: the handler's answer exactly when the layer's condition is met
C12_Routes ==
    /\ resp'.op = "me" =>
         (resp'.http.status = StatusUnauthorized <=> ~Acceptable(resp'.input.headers))
    /\ resp'.op = "list_users" =>
         /\ resp'.http.status = StatusUnauthorized <=> ~Acceptable(resp'.input.headers)
         /\ resp'.http.status = StatusForbidden <=>
              (Acceptable(resp'.input.headers)
               /\ ~Unwrap(resp'.input.headers).token.claims.admin)
         /\ resp'.http.status = StatusOk <=>
              (Acceptable(resp'.input.headers)
               /\ Unwrap(resp'.input.headers).token.claims.admin)

\* C12: auth_middleware lets a request through, with exactly the claims of its
\* token, if and only if it carries 'Bearer <token>' with a token that
\* validate_token accepts, and answers 401 otherwise; admin_middleware in
\* addition answers 403 unless those claims have admin = true; and the routes
\* behind them answer from the handler only when their layer lets through
C12_ProtectedRoutes == []C12_Layers /\ [][resp' # resp => C12_Routes]_vars

\* the admin-only listing was refused with 403 to an accepted token without
\* the admin flag
C12_Witness ==
    /\ resp.op = "list_users"
    /\ resp.http.status = StatusForbidden
    /\ Acceptable(resp.input.headers)

\* C16: validate_token returns claims only for a token that is what encode
\* yields for its claims under the secret now in force, and then returns those
\* claims; the claims of an issued token are the sub, email, name and admin
\* given to generate_token; and a held token re-signed under any other secret,
\* like every token issued before the secret changed, is rejected
C16_SecretBound ==
    /\ \A t \in sessions :
         LET v == validate_token(t.token) IN
         /\ v.ok => (t.token = encode(t.token.claims, get_jwt_secret)
                     /\ v.claims = Some(t.token.claims))
         /\ t.token # encode(t.token.claims, get_jwt_secret) => ~v.ok
         /\ \A secret \in Secrets \ {get_jwt_secret} :
              ~validate_token(encode(t.token.claims, secret)).ok
    /\ resp.op = "generate_token" =>
         LET claims == Unwrap(resp.http.token).token.claims IN
         /\ claims.sub = UuidToString(resp.input.user_id)
         /\ claims.email = resp.input.email
         /\ claims.name = resp.input.name
         /\ claims.admin = resp.input.is_admin

\* a token within its lifetime, issued before the secret was changed, was
\* presented and refused
C16_Witness ==
    /\ resp.op = "me"
    /\ resp.http.status = StatusUnauthorized
    /\ IsSome(resp.input.headers)
    /\ Unwrap(resp.input.headers).token.claims.exp > now
    /\ Unwrap(resp.input.headers).token # encode(Unwrap(resp.input.headers).token.claims,
                                                 get_jwt_secret)

\* C17: the TokenResponse of generate_token with ttl h hours (24 when none is
\* given) has expires_in = h * 3600, and its claims have iat = the issue time
\* and exp - iat = h * 3600
C17_TtlSeconds ==
    resp.op = "generate_token" =>
        LET t == Unwrap(resp.http.token)
            h == IF resp.input.expires_in_hours = None THEN 24
                 ELSE Unwrap(resp.input.expires_in_hours)
        IN  /\ t.expires_in = h * 3600
            /\ t.token.claims.iat = resp.input.at
            /\ t.token.claims.exp - t.token.claims.iat = h * 3600
            /\ resp.input.expires_in_hours = None => t.expires_in = 86400

\* a token was issued without a ttl, later than the epoch
C17_Witness ==
    /\ resp.op = "generate_token"
    /\ resp.input.expires_in_hours = None
    /\ resp.input.at > 0
    /\ Unwrap(resp.http.token).expires_in = 86400

----------------------------------------------------------------------------
(* The protected user routes: callers register or log in, keep the session
   token, and get, update and delete users with it while roles change. *)

\* a rename, and a move to an email that is free until somebody has taken it
AuthUpdateRequests ==
    {[name |-> Some("Bob"), email |-> None],
     [name |-> None, email |-> Some(EmailB)]}

NextAuth ==
    \/ \E request \in [email : {EmailA}, name : {"Alice"}, password : {Pw1}],
          salt \in Salts : Register(request, salt, FALSE)
    \/ \E request \in [email : {EmailA, EmailRoot}, password : {Pw1}],
          keep \in BOOLEAN : Login(request, keep)
    \/ \E headers \in PresentedHeaders, user_id \in Ids : GetUser(headers, user_id)
    \/ \E headers \in PresentedHeaders, user_id \in Ids, request \in AuthUpdateRequests :
           UpdateUser(headers, user_id, request)
    \/ \E headers \in PresentedHeaders, user_id \in Ids : DeleteUser(headers, user_id)
    \/ \E headers \in PresentedHeaders, user_id \in Ids,
          request \in UpdateRoleRequests : UpdateUserRole(headers, user_id, request)

SpecAuth == Init /\ [][NextAuth]_vars

\* the claims the auth middleware hands to a handler for a session token
ClaimsOf(t) == Unwrap(auth_middleware(Bearer(t.token)).claims)
Passes(t) == auth_middleware(Bearer(t.token)).status = StatusOk
AccessDenied == MessageResponse(StatusForbidden, "Access denied")

\* C10: for the claims of any accepted token and any target id, the get,
\* update and delete handlers do what the store method does on the target when
\* the claims have admin = true or their subject is the target, and otherwise
\* answer 403 'Access denied' and leave the store as it is
C10_AdminOrSelf ==
    \A t \in sessions : \A user_id \in Ids :
        Passes(t) =>
            LET claims == ClaimsOf(t)
                allowed == claims.admin \/ claims.sub = UuidToString(user_id)
                us == users
                prt == password_reset_tokens
                got == get_user_endpoint(us, prt, claims, user_id)
                deleted == delete_user_endpoint(us, prt, claims, user_id)
            IN  /\ allowed =>
                    /\ got.http.status \in {StatusOk, StatusNotFound}
                    /\ got.http.status = StatusOk <=> IsSome(get_user_by_id(us, user_id))
                    /\ got.http.status = StatusOk =>
                           got.http.user = Some(to_public(Unwrap(get_user_by_id(us, user_id))))
                    /\ deleted = Respond(delete_user(us, prt, user_id), StatusNotFound)
                    /\ \A request \in AuthUpdateRequests :
                           update_user_endpoint(us, prt, claims, user_id, request)
                             = Respond(update_user(us, prt, user_id, request),
                                       StatusBadRequest)
                /\ ~allowed =>
                    /\ got = Handled(us, prt, AccessDenied)
                    /\ deleted = Handled(us, prt, AccessDenied)
                    /\ \A request \in AuthUpdateRequests :
                           update_user_endpoint(us, prt, claims, user_id, request)
                             = Handled(us, prt, AccessDenied)

\* a caller without the admin flag was refused the deletion of a stored user
\* other than itself
C10_Witness ==
    /\ resp.op = "delete_user"
    /\ resp.http = AccessDenied
    /\ IsSome(get_user_by_id(users, resp.input.user_id))
    /\ \E t \in sessions : resp.input.headers = Bearer(t.token) /\ ~ClaimsOf(t).admin

----------------------------------------------------------------------------
(* Concurrent requests: every handler awaits the store's tokio RwLock
   (lib.rs: Arc<RwLock<UserStore>>), runs its UserStore method statement by
   statement, and drops the guard when it returns.  The steps below start at
   the handler's lock acquisition. *)

Tasks == 1..NumTasks

\* the handlers that await write(), and those that await read()
WriteOps == {"register", "create_admin", "update_user", "update_password",
             "delete_user", "update_user_role", "forgot_password", "reset_password"}
ReadOps == {"login", "me", "get_user", "list_users"}
GatedOps == {"update_user", "get_user"}

\* the Authorization headers clients hold: the tokens registration has issued
IssuedHeaders ==
    {NoHeader} \cup
    {Bearer(generate_token(registered[id].id, registered[id].email,
                           registered[id].name, registered[id].is_admin, None).token) :
        id \in DOMAIN registered}

ConcRequests ==
    [op : {"register"},
     request : [email : {EmailA, EmailB}, name : {"Alice"}, password : {Pw1}]]
    \cup [op : {"update_user"}, headers : IssuedHeaders, user_id : Ids,
          request : {[name |-> None, email |-> Some(EmailA)],
                     [name |-> None, email |-> Some(EmailB)],
                     [name |-> Some("Bob"), email |-> Some(EmailB)]}]
    \cup [op : {"login"}, request : [email : {EmailA, EmailB}, password : {Pw1}]]
    \cup [op : {"get_user"}, headers : IssuedHeaders, user_id : Ids]

\* UserStore::new(), as the tests build it
InitConc ==
    /\ now = 0
    /\ jwt_secret = "k1"
    /\ users = EmptyMap
    /\ nextId = 1
    /\ password_reset_tokens = EmptyMap
    /\ nextToken = 1
    /\ sessions = {}
    /\ resp = [op |-> "start", input |-> None, http |-> MessageResponse(StatusOk, "")]
    /\ consumed = {}
    /\ issued_at = EmptyMap
    /\ password_set = EmptyMap
    /\ TasksIdle

\* RwLock::write() is granted when nobody holds a guard
CanWrite_ignores_holders(t) == TRUE

CanWrite(t) == writer = 0 /\ readers = {}

\* RwLock::read() is granted when no writer holds the guard
CanRead_ignores_writer(t) == TRUE

CanRead(t) == writer = 0

Op(t) == Unwrap(req[t]).op
Request(t) == Unwrap(req[t]).request
Local(t) == Unwrap(loc[t])

\* requests that have not drawn their user id, or their reset token, yet
PendingRegisters ==
    {t \in Tasks : /\ pc[t] \in {"wait_write", "reg_check", "lookup"}
                   /\ Op(t) \in {"register", "create_admin"}}
PendingForgots ==
    {t \in Tasks : pc[t] \in {"wait_write", "lookup"} /\ Op(t) = "forgot_password"}

Goto(t, label) == pc' = [pc EXCEPT ![t] = label]
\* the handler's first statement under the write guard
FirstStep(op) ==
    IF op = "register" THEN "reg_check"
    ELSE IF op = "update_user" THEN "upd_check"
    ELSE "lookup"
\* what the guard gives access to: the two maps, and the ids still to be drawn
StoreNow ==
    [users |-> users, tokens |-> password_reset_tokens,
     nextId |-> nextId, nextToken |-> nextToken]
Finish(t, http) ==
    /\ out' = [out EXCEPT ![t] = Some(http)]
    /\ Goto(t, "release")

\* what the auth layer and the handler's own access check answer before any
\* lock is awaited: None when the request goes on to the store
Gate(r) ==
    IF r.op \notin GatedOps THEN None
    ELSE LET m == auth_middleware(r.headers) IN
         IF m.status # StatusOk THEN Some(MessageResponse(m.status, ""))
         ELSE LET claims == Unwrap(m.claims)
                  current_user_id == ParseUuid(claims.sub)
              IN  IF ~IsSome(current_user_id)
                    THEN Some(MessageResponse(StatusInternalServerError, "Invalid user ID"))
                  ELSE IF denies_access(claims, Unwrap(current_user_id), r.user_id)
                    THEN Some(MessageResponse(StatusForbidden, "Access denied"))
                  ELSE None

\* past the access check the handler uses the path and the body only
Admitted(r) ==
    IF r.op = "update_user"
      THEN [op |-> r.op, user_id |-> r.user_id, request |-> r.request]
    ELSE IF r.op = "get_user" THEN [op |-> r.op, user_id |-> r.user_id]
    ELSE r

\* a request reaches its handler and, unless the handler refuses it without
\* touching the store, awaits the lock
Arrive(t, r) ==
    /\ pc[t] = "idle"
    /\ r.op \in {"register", "create_admin"}
         => nextId + Cardinality(PendingRegisters) <= MaxUsers
    /\ r.op = "forgot_password" => nextToken + Cardinality(PendingForgots) <= MaxTokens
    /\ Gate(r) = None
    /\ req' = [req EXCEPT ![t] = Some(Admitted(r))]
    /\ Goto(t, IF r.op \in WriteOps THEN "wait_write" ELSE "wait_read")
    /\ UNCHANGED <<storeVars, writer, readers, loc, out, registered, updated, seen, queue, orders, issued_to>>

\* let mut user_store = state.user_store.write().await;
AcquireWrite(t) ==
    /\ pc[t] = "wait_write"
    /\ CanWrite(t)
    /\ writer' = t
    /\ seen' = [seen EXCEPT ![t] = Some(StoreNow)]
    /\ Goto(t, FirstStep(Op(t)))
    /\ UNCHANGED <<storeVars, readers, req, loc, out, registered, updated, queue, orders, issued_to>>

\* let user_store = state.user_store.read().await;
AcquireRead(t) ==
    /\ pc[t] = "wait_read"
    /\ CanRead(t)
    /\ readers' = readers \cup {t}
    /\ seen' = [seen EXCEPT ![t] = Some(StoreNow)]
    /\ Goto(t, "read")
    /\ UNCHANGED <<storeVars, writer, req, loc, out, registered, updated, queue, orders, issued_to>>

\* register, lines 165-184
RegisterCheck(t) ==
    /\ pc[t] = "reg_check"
    /\ \E salt \in Salts :
         LET c == register_check(users, Request(t), nextId, salt) IN
         IF ~c.ok
           THEN /\ Finish(t, MessageResponse(StatusBadRequest, c.err))
                /\ UNCHANGED <<nextId, loc>>
           ELSE /\ loc' = [loc EXCEPT ![t] = Some([user |-> Unwrap(c.user),
                                                   token |-> c.token])]
                /\ nextId' = nextId + 1
                /\ Goto(t, "reg_insert")
                /\ UNCHANGED out
    /\ UNCHANGED <<users, password_reset_tokens, now, jwt_secret, nextToken, sessions,
                   resp, consumed, issued_at, password_set, writer, readers, req, registered, updated,
                   seen, queue, orders, issued_to>>

\* register, lines 186-193
RegisterInsert(t) ==
    /\ pc[t] = "reg_insert"
    /\ users' = Insert(users, Request(t).email, Local(t).user)
    /\ registered' = Insert(registered, Local(t).user.id, Local(t).user)
    /\ Finish(t, Response(StatusOk, "User registered successfully",
                          Some(to_public(Local(t).user)), Local(t).token, None))
    /\ password_set' = Insert(password_set, Local(t).user.id, Request(t).password)
    /\ UNCHANGED <<password_reset_tokens, now, jwt_secret, nextId, nextToken, sessions,
                   resp, consumed, issued_at, writer, readers, req, loc, updated, seen, queue, orders, issued_to>>

\* update_user, lines 271-296
UpdateCheck(t) ==
    /\ pc[t] = "upd_check"
    /\ LET c == update_user_check(users, Unwrap(req[t]).user_id, Request(t)) IN
       IF ~c.ok
         THEN /\ Finish(t, MessageResponse(StatusBadRequest, c.err))
              /\ UNCHANGED loc
         ELSE /\ loc' = [loc EXCEPT ![t] = Some([old_email |-> Unwrap(c.old_email),
                                                 before |-> users[Unwrap(c.old_email)],
                                                 user |-> None])]
              /\ Goto(t, "upd_mutate")
              /\ UNCHANGED out
    /\ UNCHANGED <<storeVars, writer, readers, req, registered, updated, seen, queue, orders, issued_to>>

\* .unwrap() on None: the task panics and its guard is dropped
Panic(t) == Finish(t, MessageResponse(StatusInternalServerError, "panic"))

\* update_user, lines 298-300 and, when the key stays, 316-320
UpdateMutate(t) ==
    /\ pc[t] = "upd_mutate"
    /\ LET old_email == Local(t).old_email IN
       IF old_email \notin DOMAIN users
         THEN Panic(t) /\ UNCHANGED <<users, updated>>
         ELSE /\ users' = update_user_mutate(users, old_email, Request(t))
              /\ updated' = updated \cup {users[old_email].id}
              /\ IF update_user_relocates(old_email, Request(t))
                   THEN Goto(t, "upd_remove") /\ UNCHANGED out
                   ELSE Finish(t, Response(StatusOk, "Profile updated successfully",
                                           Some(to_public(users'[old_email])),
                                           None, None))
    /\ UNCHANGED <<password_reset_tokens, now, jwt_secret, nextId, nextToken, sessions,
                   resp, consumed, issued_at, password_set, writer, readers, req, loc, registered,
                   seen, queue, orders, issued_to>>

\* update_user, line 306
UpdateRemove(t) ==
    /\ pc[t] = "upd_remove"
    /\ LET old_email == Local(t).old_email IN
       IF old_email \notin DOMAIN users
         THEN Panic(t) /\ UNCHANGED <<users, loc>>
         ELSE /\ users' = Remove(users, old_email)
              /\ loc' = [loc EXCEPT ![t] = Some([Local(t) EXCEPT
                                                    !.user = Some(users[old_email])])]
              /\ Goto(t, "upd_insert")
              /\ UNCHANGED out
    /\ UNCHANGED <<password_reset_tokens, now, jwt_secret, nextId, nextToken, sessions,
                   resp, consumed, issued_at, password_set, writer, readers, req, registered, updated,
                   seen, queue, orders, issued_to>>

\* update_user, lines 307-313
UpdateInsert(t) ==
    /\ pc[t] = "upd_insert"
    /\ LET new_email == Unwrap(Request(t).email) IN
       /\ users' = Insert(users, new_email, Unwrap(Local(t).user))
       /\ Finish(t, Response(StatusOk, "Profile updated successfully",
                             Some(to_public(users'[new_email])), None, None))
    /\ UNCHANGED <<password_reset_tokens, now, jwt_secret, nextId, nextToken, sessions,
                   resp, consumed, issued_at, password_set, writer, readers, req, loc, registered,
                   updated, seen, queue, orders, issued_to>>

\* what a read handler answers from the store st its guard gives it:
\* login_endpoint, me_endpoint, list_users_endpoint, and get_user_endpoint
\* lines 551-564
ReadAnswer(st, r) ==
    IF r.op = "login" THEN login_endpoint(st.users, st.tokens, r.request).http
    ELSE IF r.op = "me" THEN me_endpoint(st.users, st.tokens, r.claims).http
    ELSE IF r.op = "list_users" THEN list_users_endpoint(st.users, st.tokens).http
    ELSE LET user == get_user_by_id(st.users, r.user_id) IN
         IF ~IsSome(user)
           THEN MessageResponse(StatusNotFound, "User not found")
           ELSE Response(StatusOk, "User retrieved successfully",
                         Some(to_public(Unwrap(user))), None, None)

\* the read handlers, under the read guard
Read(t) ==
    /\ pc[t] = "read"
    /\ Finish(t, ReadAnswer(StoreNow, Unwrap(req[t])))
    /\ UNCHANGED <<storeVars, writer, readers, req, loc, registered, updated, seen, queue, orders, issued_to>>

\* the handler returns and its guard is leaked
Release_leaks_guard(t) ==
    /\ pc[t] = "release"
    /\ Goto(t, "idle")
    /\ req' = [req EXCEPT ![t] = None]
    /\ loc' = [loc EXCEPT ![t] = None]
    /\ out' = [out EXCEPT ![t] = None]
    /\ seen' = [seen EXCEPT ![t] = None]
    /\ UNCHANGED <<storeVars, writer, readers, registered, updated, queue, orders, issued_to>>

\* the handler returns: the guard is dropped and the response is sent
Release(t) ==
    /\ pc[t] = "release"
    /\ writer' = IF writer = t THEN 0 ELSE writer
    /\ readers' = readers \ {t}
    /\ Goto(t, "idle")
    /\ req' = [req EXCEPT ![t] = None]
    /\ loc' = [loc EXCEPT ![t] = None]
    /\ out' = [out EXCEPT ![t] = None]
    /\ seen' = [seen EXCEPT ![t] = None]
    /\ UNCHANGED <<storeVars, registered, updated, queue, orders, issued_to>>

NextConc ==
    \/ \E t \in Tasks, r \in ConcRequests : Arrive(t, r)
    \/ \E t \in Tasks : AcquireWrite(t)
    \/ \E t \in Tasks : AcquireRead(t)
    \/ \E t \in Tasks : RegisterCheck(t)
    \/ \E t \in Tasks : RegisterInsert(t)
    \/ \E t \in Tasks : UpdateCheck(t)
    \/ \E t \in Tasks : UpdateMutate(t)
    \/ \E t \in Tasks : UpdateRemove(t)
    \/ \E t \in Tasks : UpdateInsert(t)
    \/ \E t \in Tasks : Read(t)
    \/ \E t \in Tasks : Release(t)

SpecConc == InitConc /\ [][NextConc]_vars

----------------------------------------------------------------------------
(* Claims about concurrent requests, checked under SpecConc *)

RegisterConflict == MessageResponse(StatusBadRequest, "User with this email already exists")

AtRelease(t, op) == pc[t] = "release" /\ Op(t) = op /\ IsSome(out[t])

\* C1: of the register requests carrying one email, in any interleaving, at
\* most one succeeds: two registered users share their registration email only
\* if one of them was relocated by update_user in between; a register request
\* that fails on a taken email fails with the "already exists" conflict while
\* the email is taken; and the record a registration stored stays under its
\* email, unaltered, until an update_user changes it.
C1_RegisterUnique ==
    /\ \A id1 \in DOMAIN registered, id2 \in DOMAIN registered :
         (id1 # id2 /\ registered[id1].email = registered[id2].email)
           => (id1 \in updated \/ id2 \in updated)
    /\ \A id \in DOMAIN registered \ updated :
         get_user_by_email(users, registered[id].email) = Some(registered[id])
    /\ \A t \in Tasks :
         (AtRelease(t, "register") /\ Unwrap(out[t]).status # StatusOk)
           => (Unwrap(out[t]) = RegisterConflict /\ Request(t).email \in DOMAIN users)
    /\ \A t \in Tasks :
         (AtRelease(t, "register") /\ Unwrap(out[t]).status = StatusOk)
           => get_user_by_email(users, Request(t).email) = Some(Local(t).user)

\* two register requests with one email in flight: one has stored its record
\* and still holds the guard, the other is waiting for it
C1_Witness ==
    \E t1 \in Tasks, t2 \in Tasks :
      /\ t1 # t2
      /\ AtRelease(t1, "register") /\ Unwrap(out[t1]).status = StatusOk
      /\ pc[t2] = "wait_write" /\ Op(t2) = "register"
      /\ Request(t2).email = Request(t1).email

\* every registered user is stored under exactly one key, the email its record
\* carries, and the map holds nothing else
Consistent ==
    /\ \A id \in DOMAIN registered :
         \E e \in DOMAIN users :
           /\ users[e].id = id
           /\ users[e].email = e
           /\ \A e2 \in DOMAIN users : users[e2].id = id => e2 = e
    /\ Cardinality(DOMAIN users) = Cardinality(DOMAIN registered)

Relocated(t) ==
    /\ AtRelease(t, "update_user")
    /\ Unwrap(out[t]).status = StatusOk
    /\ update_user_relocates(Local(t).old_email, Request(t))

----------------------------------------------------------------------------
(* The life of an account: users register, log in and keep the session token,
   change profile and password, are promoted, demoted and deleted, and reset
   forgotten passwords, all within the lifetime of their tokens. *)

\* a change to the other password, back again, and one the policy refuses
LifePasswordRequests ==
    {[current_password |-> Pw1, new_password |-> Pw2],
     [current_password |-> Pw2, new_password |-> Pw1],
     [current_password |-> Pw1, new_password |-> PwWeak]}

NextLife ==
    \/ \E request \in [email : {EmailA}, name : {"Alice"}, password : {Pw1}],
          salt \in Salts : Register(request, salt, TRUE)
    \/ \E headers \in PresentedHeaders,
          request \in [email : {EmailB}, name : {"Bob"}, password : {Pw2}],
          salt \in Salts : CreateAdmin(headers, request, salt)
    \/ \E request \in [email : {EmailA, EmailRoot}, password : {Pw1, Pw2}] :
           Login(request, TRUE)
    \/ \E headers \in PresentedHeaders, user_id \in Ids,
          request \in {[name |-> None, email |-> Some(EmailB)]} :
           UpdateUser(headers, user_id, request)
    \/ \E headers \in PresentedHeaders, user_id \in Ids,
          request \in LifePasswordRequests, salt \in Salts :
           UpdatePassword(headers, user_id, request, salt)
    \/ \E headers \in PresentedHeaders, user_id \in Ids : DeleteUser(headers, user_id)
    \/ \E headers \in PresentedHeaders, user_id \in Ids,
          request \in UpdateRoleRequests : UpdateUserRole(headers, user_id, request)
    \/ \E request \in [email : {EmailA}] : ForgotPassword(request)
    \/ \E request \in [token : PresentableTokens, new_password : {Pw2}],
          salt \in Salts : ResetPassword(request, salt)

SpecLife == Init /\ [][NextLife]_vars

----------------------------------------------------------------------------
(* Claims about accounts, checked under SpecLife *)

PasswordChanges == [current_password : Passwords, new_password : Passwords]

\* C11: for the claims of any accepted token, any target id and any request,
\* update_password_endpoint does what update_password does on the target when
\* the claims' subject is the target, and otherwise, admin or not, answers 403
\* 'Access denied' and leaves the store as it is
C11_PasswordSelfOnly ==
    \A t \in sessions : \A user_id \in Ids :
        Passes(t) =>
            LET claims == ClaimsOf(t) IN
            \A request \in PasswordChanges, salt \in Salts :
                LET h == update_password_endpoint(users, password_reset_tokens, claims,
                                                  user_id, request, salt)
                IN  IF claims.sub = UuidToString(user_id)
                      THEN h = Respond(update_password(users, password_reset_tokens,
                                                       user_id, request, salt),
                                       StatusBadRequest)
                      ELSE h = Handled(users, password_reset_tokens, AccessDenied)

\* an admin asked for the password change of another stored user, with that
\* user's correct current password, and was refused
C11_Witness ==
    /\ resp.op = "update_password"
    /\ resp.http = AccessDenied
    /\ \E t \in sessions :
         /\ resp.input.headers = Bearer(t.token)
         /\ ClaimsOf(t).admin
    /\ LET user == get_user_by_id(users, resp.input.user_id) IN
       /\ IsSome(user)
       /\ User_verify_password(Unwrap(user), resp.input.request.current_password).valid

\* C13: update_user with a new email that differs from the target's current
\* email and is the email of another user fails with 'Email already in use'
\* and leaves the whole directory as it was, the target's email, name and
\* updated_at included
C13_ConflictChangesNothing ==
    \A user_id \in Ids :
        LET target == get_user_by_id(users, user_id) IN
        IsSome(target) =>
            \A email \in AllEmails, name \in {None} \cup {Some(n) : n \in Names} :
                (email # Unwrap(target).email
                 /\ IsSome(get_user_by_email(users, email))
                 /\ Unwrap(get_user_by_email(users, email)).id # user_id) =>
                    LET r == update_user(users, password_reset_tokens, user_id,
                                         [name |-> name, email |-> Some(email)])
                    IN  /\ ~r.ok
                        /\ r.message = "Email already in use"
                        /\ r.users = users
                        /\ get_user_by_id(r.users, user_id) = target

\* a user asked for the email of another stored user and got the conflict
C13_Witness ==
    /\ resp.op = "update_user"
    /\ resp.http = MessageResponse(StatusBadRequest, "Email already in use")
    /\ LET holder == get_user_by_email(users, Unwrap(resp.input.request.email)) IN
       /\ IsSome(holder)
       /\ Unwrap(holder).id # resp.input.user_id
       /\ IsSome(get_user_by_id(users, resp.input.user_id))

\* C14: update_password succeeds exactly when the current password verifies
\* against the stored hash and the new one satisfies the policy; then the new
\* password authenticates, the old one, if different, no longer does, and no
\* other record changes; when it fails the directory, the stored hash and
\* updated_at included, is as it was
C14_PasswordChangeGuarded ==
    \A user_id \in Ids :
        LET target == get_user_by_id(users, user_id) IN
        IsSome(target) =>
            \A request \in PasswordChanges, salt \in Salts :
                LET r == update_password(users, password_reset_tokens, user_id,
                                         request, salt)
                    user == Unwrap(target)
                    after == get_user_by_id(r.users, user_id)
                IN  /\ r.ok <=>
                         (User_verify_password(user, request.current_password).valid
                          /\ validate_password_strength(request.new_password).ok)
                    /\ r.ok =>
                         /\ IsSome(after)
                         /\ User_verify_password(Unwrap(after),
                                                 request.new_password).valid
                         /\ request.current_password # request.new_password =>
                              ~User_verify_password(Unwrap(after),
                                                    request.current_password).valid
                         /\ \A e \in DOMAIN users :
                              users[e].id # user_id =>
                                  (e \in DOMAIN r.users /\ r.users[e] = users[e])
                    /\ ~r.ok => r.users = users

\* a user changed the password to a different one
C14_Witness ==
    /\ resp.op = "update_password"
    /\ resp.http.status = StatusOk
    /\ resp.input.request.current_password # resp.input.request.new_password
    /\ LET user == get_user_by_id(users, resp.input.user_id) IN
       /\ IsSome(user)
       /\ User_verify_password(Unwrap(user), resp.input.request.new_password).valid

\* C15: in every reachable state login(email, password) succeeds exactly when
\* a user is stored under the email and the password is the one most recently
\* set for that user; the claims of the issued token carry the user's id,
\* email, name and current is_admin flag
C15_LoginLatestPassword ==
    \A email \in AllEmails, password \in Passwords :
        LET r == login(users, password_reset_tokens,
                       [email |-> email, password |-> password])
        IN  /\ r.ok <=>
                 /\ email \in DOMAIN users
                 /\ users[email].id \in DOMAIN password_set
                 /\ password_set[users[email].id] = password
            /\ r.ok =>
                 LET v == validate_token(Unwrap(r.token).token) IN
                 /\ v.ok
                 /\ Unwrap(v.claims).sub = UuidToString(users[email].id)
                 /\ Unwrap(v.claims).email = users[email].email
                 /\ Unwrap(v.claims).name = users[email].name
                 /\ Unwrap(v.claims).admin = users[email].is_admin

\* a user registered with one password logged in with the one set later
C15_Witness ==
    /\ resp.op = "login"
    /\ resp.http.status = StatusOk
    /\ resp.input.email = EmailA
    /\ resp.input.password = Pw2
    /\ EmailA \in DOMAIN users
    /\ ~login(users, password_reset_tokens,
              [email |-> EmailA, password |-> Pw1]).ok

(* Roles: the routes that create users or write their records, without the
   password routes. *)

NextRole ==
    \/ \E request \in [email : {EmailA}, name : {"Alice"}, password : {Pw1}],
          salt \in Salts : Register(request, salt, TRUE)
    \/ \E headers \in PresentedHeaders,
          request \in [email : {EmailB}, name : {"Bob"}, password : {Pw2}],
          salt \in Salts : CreateAdmin(headers, request, salt)
    \/ \E request \in [email : {EmailRoot}, password : {Pw1}] : Login(request, TRUE)
    \/ \E headers \in PresentedHeaders, user_id \in Ids,
          request \in AuthUpdateRequests :
           UpdateUser(headers, user_id, request)
    \/ \E headers \in PresentedHeaders, user_id \in Ids,
          request \in UpdateRoleRequests : UpdateUserRole(headers, user_id, request)
    \/ \E headers \in PresentedHeaders, user_id \in Ids : DeleteUser(headers, user_id)

SpecRole == Init /\ [][NextRole]_vars

\* C19: a user created by register is not an admin, a user created by
\* create_admin is one, and the is_admin flag of a stored user changes only in
\* a step of update_user_role on that user
C19_RoleChanges ==
    [][\A id \in Ids :
           LET before == get_user_by_id(users, id)
               after == get_user_by_id(users', id)
           IN  /\ (IsSome(before) /\ IsSome(after)
                   /\ Unwrap(before).is_admin # Unwrap(after).is_admin) =>
                      /\ resp'.op = "update_user_role"
                      /\ resp'.input.user_id = id
                      /\ Unwrap(after).is_admin = resp'.input.request.is_admin
               /\ (~IsSome(before) /\ IsSome(after)) =>
                      \/ resp'.op = "register" /\ ~Unwrap(after).is_admin
                      \/ resp'.op = "create_admin" /\ Unwrap(after).is_admin]_vars

\* an admin made by create_admin stands next to a customer made by register
C19_Witness ==
    /\ resp.op = "create_admin"
    /\ resp.http.status = StatusOk
    /\ Unwrap(resp.http.user).is_admin
    /\ \E e \in DOMAIN users : ~users[e].is_admin

----------------------------------------------------------------------------
(* Lazy expiry of reset tokens, checked under SpecReset. *)

\* the ledger r.tokens still holds every expired token of the current ledger
KeepsExpired(r) ==
    \A t \in DOMAIN password_reset_tokens :
        Expired(t) => (t \in DOMAIN r.tokens
                       /\ r.tokens[t] = password_reset_tokens[t])

\* while the ledger holds an expired token, no operation of the store other
\* than reset_password drops it
OthersKeepExpired ==
    (\E t \in DOMAIN password_reset_tokens : Expired(t)) =>
    /\ \A request \in [email : Emails, name : {"Alice"}, password : {Pw1, PwWeak}],
          salt \in Salts :
           /\ KeepsExpired(register(users, password_reset_tokens, request,
                                    nextId, salt))
           /\ KeepsExpired(create_admin(users, password_reset_tokens, request,
                                        nextId, salt))
    /\ \A email \in AllEmails, password \in Passwords :
           KeepsExpired(login(users, password_reset_tokens,
                              [email |-> email, password |-> password]))
    /\ \A email \in AllEmails :
           KeepsExpired(generate_password_reset_token(users, password_reset_tokens,
                                                      email, nextToken))
    /\ \A user_id \in Ids :
           /\ KeepsExpired(delete_user(users, password_reset_tokens, user_id))
           /\ \A request \in UpdateProfileRequests :
                  KeepsExpired(update_user(users, password_reset_tokens, user_id, request))
           /\ \A request \in UpdateRoleRequests :
                  KeepsExpired(update_user_role(users, password_reset_tokens,
                                                user_id, request))
           /\ \A request \in PasswordChanges, salt \in Salts :
                  KeepsExpired(update_password(users, password_reset_tokens,
                                               user_id, request, salt))

\* reset_password with an expired token fails, drops that token and no other,
\* changes no user, and the same request then fails on the missing token
ExpiredIsPurged ==
    \A request \in ResetInputs, salt \in Salts :
        Expired(request.token) =>
            LET r == reset_password(users, password_reset_tokens, request, salt)
                again == reset_password(r.users, r.tokens, request, salt)
            IN  /\ ~r.ok
                /\ r.users = users
                /\ r.tokens = Remove(password_reset_tokens, request.token)
                /\ ~again.ok
                /\ again.message = "Invalid or expired reset token"
                /\ again.users = users
                /\ again.tokens = r.tokens

\* C20: reset_password with a token whose expiry has passed fails, removes
\* exactly that token and changes no password; a later call with the token
\* fails because the token is absent, in every later state since a removed
\* token never returns; and an expired token leaves the ledger only in a
\* refused reset_password step that presents it
C20_LazyExpiry ==
    /\ [](ExpiredIsPurged /\ OthersKeepExpired)
    /\ [][\A token \in TokenIds :
              /\ (Expired(token) /\ token \notin DOMAIN password_reset_tokens') =>
                     /\ resp'.op = "reset_password"
                     /\ resp'.input.token = token
                     /\ resp'.http = MessageResponse(StatusBadRequest,
                                                     "Reset token has expired")
                     /\ users' = users
              /\ (token \in DOMAIN issued_at
                  /\ token \notin DOMAIN password_reset_tokens) =>
                     token \notin DOMAIN password_reset_tokens']_vars

\* an expired token was presented and purged, and presented again
C20_Witness ==
    /\ resp.op = "reset_password"
    /\ resp.http = MessageResponse(StatusBadRequest, "Invalid or expired reset token")
    /\ resp.input.token \in DOMAIN issued_at
    /\ resp.input.token \notin consumed
    /\ resp.input.token \notin DOMAIN password_reset_tokens
    /\ now > issued_at[resp.input.token] + ResetTtl

----------------------------------------------------------------------------
(* Accounts over time: the operations that write a user record, with a clock
   that moves between them. *)

ClockInstants == {1}
ClockUpdateRequests == {[name |-> None, email |-> Some(EmailB)]}
ClockRoleRequests == {[is_admin |-> TRUE]}
ClockPasswordRequests == {[current_password |-> Pw1, new_password |-> Pw2]}

NextClock ==
    \/ \E request \in [email : {EmailA}, name : {"Alice"}, password : {Pw1}],
          salt \in Salts : Register(request, salt, TRUE)
    \/ \E request \in [email : {EmailRoot}, password : {Pw1}] : Login(request, TRUE)
    \/ \E headers \in PresentedHeaders, user_id \in Ids, request \in ClockUpdateRequests :
           UpdateUser(headers, user_id, request)
    \/ \E headers \in PresentedHeaders, user_id \in Ids,
          request \in ClockPasswordRequests, salt \in Salts :
           UpdatePassword(headers, user_id, request, salt)
    \/ \E headers \in PresentedHeaders, user_id \in Ids,
          request \in ClockRoleRequests : UpdateUserRole(headers, user_id, request)
    \/ \E headers \in PresentedHeaders, user_id \in Ids : DeleteUser(headers, user_id)
    \/ \E t \in ClockInstants : Advance(t)

SpecClock == Init /\ [][NextClock]_vars

\* every stored record has its own id and was not updated before it was created
StampsOrdered ==
    /\ \A e \in DOMAIN users : users[e].updated_at >= users[e].created_at
    /\ \A e1, e2 \in DOMAIN users : users[e1].id = users[e2].id => e1 = e2

\* C18: for every stored user the id and created_at are those assigned at
\* creation: a record enters the directory with the next id and created_at and
\* updated_at at the clock, keeps its id and created_at through every step
\* until delete_user removes it, and updated_at >= created_at throughout,
\* the clock only moving forward
C18_IdentityStable ==
    /\ []StampsOrdered
    /\ [][/\ now' >= now
          /\ \A id \in Ids :
                 LET before == get_user_by_id(users, id)
                     after == get_user_by_id(users', id)
                 IN  /\ (IsSome(before) /\ IsSome(after)) =>
                            /\ Unwrap(after).created_at = Unwrap(before).created_at
                            /\ Unwrap(after).updated_at >= Unwrap(before).updated_at
                     /\ (~IsSome(before) /\ IsSome(after)) =>
                            /\ id = nextId
                            /\ Unwrap(after).created_at = now
                            /\ Unwrap(after).updated_at = now
                     /\ (IsSome(before) /\ ~IsSome(after)) =>
                            /\ resp'.op = "delete_user"
                            /\ resp'.input.user_id = id]_vars

\* a record written after the clock moved: updated_at is past created_at
C18_Witness ==
    /\ resp.op \in {"update_user", "update_password", "update_user_role"}
    /\ resp.http.status = StatusOk
    /\ LET user == get_user_by_id(users, resp.input.user_id) IN
       /\ IsSome(user)
       /\ Unwrap(user).updated_at = now
       /\ Unwrap(user).updated_at > Unwrap(user).created_at

----------------------------------------------------------------------------
(* Issue of reset tokens, checked under SpecReset. *)

\* C21: generate_password_reset_token fails with 'User not found' and leaves
\* the ledger as it was when no user has the email; otherwise it adds one
\* entry, the new token for the email with expiry one hour from now, keeps
\* every entry there was, and reset_password with an earlier token has the
\* outcome it had before the issue
C21_IssueAddsOneEntry ==
    \A email \in AllEmails \cup {EmailBad} :
        LET r == generate_password_reset_token(users, password_reset_tokens,
                                               email, nextToken)
        IN  /\ r.users = users
            /\ email \notin DOMAIN users =>
                   /\ ~r.ok
                   /\ r.message = "User not found"
                   /\ r.tokens = password_reset_tokens
            /\ email \in DOMAIN users =>
                   /\ r.ok
                   /\ nextToken \notin DOMAIN password_reset_tokens
                   /\ DOMAIN r.tokens = DOMAIN password_reset_tokens \cup {nextToken}
                   /\ r.tokens[nextToken] = [email |-> email, expiry |-> now + 3600]
                   /\ \A t \in DOMAIN password_reset_tokens :
                          /\ r.tokens[t] = password_reset_tokens[t]
                          /\ \A new_password \in Passwords, salt \in Salts :
                                 LET request == [token |-> t,
                                                 new_password |-> new_password]
                                     was == reset_password(users, password_reset_tokens,
                                                           request, salt)
                                     is == reset_password(r.users, r.tokens,
                                                          request, salt)
                                 IN  /\ is.ok = was.ok
                                     /\ is.message = was.message
                                     /\ is.users = was.users

\* a second token was issued for an email whose first token is still live,
\* and the first one was then consumed
C21_Witness ==
    /\ resp.op = "reset_password"
    /\ resp.http.status = StatusOk
    /\ \E t \in DOMAIN password_reset_tokens :
           /\ t > resp.input.token
           /\ issued_at[t] <= now
           /\ password_reset_tokens[t].email = EmailA
    /\ consumed = {resp.input.token}
    /\ User_verify_password(users[EmailA], Pw2).valid
    /\ User_verify_password(users[EmailRoot], Pw1).valid

----------------------------------------------------------------------------
(* The policy validators on their own: a caller (User::new, update_password,
   the unit tests) hands a string to validate_password_strength or to
   validate_email and gets Ok or the reason. *)

\* the longest lead of a password and the longest email the model draws
MaxLeadLen == 4
MaxEmailLen == 5

\* one char of each class, a two byte lowercase char, and a space of no class
PolicyChars == {"A", "a", "1", "!", "e_acute", " "}
EmailChars == {"a", "@", "."}

Strings(chars, n) == UNION {[1..k -> chars] : k \in 0..n}
Spaces(n) == [i \in 1..n |-> " "]

\* a lead followed by spaces, up to the two ends of the length window
PadLengths == {0, 3, 4, 124, 125}
PolicyPasswords ==
    {lead \o Spaces(n) : lead \in Strings(PolicyChars, MaxLeadLen), n \in PadLengths}
PolicyEmails == Strings(EmailChars, MaxEmailLen)

\* the string the caller is about to hand over
PolicyInputs ==
    {[function |-> "validate_password_strength", arg |-> p] : p \in PolicyPasswords}
    \cup {[function |-> "validate_email", arg |-> e] : e \in PolicyEmails}

InitPolicy ==
    /\ now = 0
    /\ jwt_secret = "k1"
    /\ users = EmptyMap
    /\ nextId = 1
    /\ password_reset_tokens = EmptyMap
    /\ nextToken = 1
    /\ sessions = {}
    /\ \E call \in PolicyInputs : resp = [op |-> "call", input |-> call, http |-> Ok]
    /\ consumed = {}
    /\ issued_at = EmptyMap
    /\ password_set = EmptyMap
    /\ TasksIdle

ValidatePassword ==
    /\ resp.op = "call"
    /\ resp.input.function = "validate_password_strength"
    /\ resp' = [op |-> "validate_password_strength", input |-> resp.input.arg,
                http |-> validate_password_strength(resp.input.arg)]
    /\ UNCHANGED <<users, password_reset_tokens, now, jwt_secret, nextId, nextToken,
                   sessions, consumed, issued_at, password_set, taskVars>>

ValidateEmail ==
    /\ resp.op = "call"
    /\ resp.input.function = "validate_email"
    /\ resp' = [op |-> "validate_email", input |-> resp.input.arg,
                http |-> validate_email(resp.input.arg)]
    /\ UNCHANGED <<users, password_reset_tokens, now, jwt_secret, nextId, nextToken,
                   sessions, consumed, issued_at, password_set, taskVars>>

NextPolicy == ValidatePassword \/ ValidateEmail

SpecPolicy == InitPolicy /\ [][NextPolicy]_vars

\* the clauses of the password policy, in the order of the claim
Classes == <<UppercaseChars, LowercaseChars, DigitChars, SpecialChars>>
ClassReasons ==
    <<"Password must contain at least one uppercase letter",
      "Password must contain at least one lowercase letter",
      "Password must contain at least one digit",
      "Password must contain at least one special character">>

\* the verdict of the policy on a password whose length is counted as len
PolicyVerdict(password, len) ==
    IF len < 8 THEN Err("Password must be at least 8 characters long")
    ELSE IF len > 128 THEN Err("Password must be no more than 128 characters long")
    ELSE IF \E k \in 1..4 : ~AnyChar(password, Classes[k])
      THEN Err(ClassReasons[CHOOSE k \in 1..4 :
                               /\ ~AnyChar(password, Classes[k])
                               /\ \A j \in 1..(k - 1) : AnyChar(password, Classes[j])])
    ELSE Ok

\* C22 as claimed: a password is accepted iff its length, the number of its
\* characters, is in [8, 128] and it has a character of each of the four
\* classes, and a rejection reports the first failing clause in the order too
\* short, too long, no uppercase, no lowercase, no digit, no special character
C22_PolicyByCharacters ==
    resp.op = "validate_password_strength" =>
        resp.http = PolicyVerdict(resp.input, Len(resp.input))

\* the same policy with the length counted in bytes, as str::len counts it
PolicyByBytes ==
    resp.op = "validate_password_strength" =>
        resp.http = PolicyVerdict(resp.input, StrLen(resp.input))

\* the index of the one '@' of an email that has exactly one
AtIndex(email) == CHOOSE i \in 1..Len(email) : email[i] = "@"
AtCount(email) == Cardinality({i \in 1..Len(email) : email[i] = "@"})

\* C23: validate_email accepts an email iff it is non-empty, has exactly one
\* '@', has a non-empty local part and a non-empty domain part, and the domain
\* part has a '.'; the message of a rejection is that of the first clause, in
\* this order, that fails
C23_EmailClauses ==
    resp.op = "validate_email" =>
        LET email == resp.input
            local == SubSeq(email, 1, AtIndex(email) - 1)
            domain == SubSeq(email, AtIndex(email) + 1, Len(email))
        IN  resp.http =
              IF email = <<>> THEN Err("Email cannot be empty")
              ELSE IF AtCount(email) = 0 THEN Err("Email must contain @ symbol")
              ELSE IF AtCount(email) > 1
                THEN Err("Email must have exactly one @ symbol")
              ELSE IF local = <<>> \/ domain = <<>>
                THEN Err("Email must have non-empty local and domain parts")
              ELSE IF \A i \in 1..Len(domain) : domain[i] # "."
                THEN Err("Email domain must contain at least one dot")
              ELSE Ok

\* an email with a dot in the local part only was refused for its domain
C23_Witness ==
    /\ resp.op = "validate_email"
    /\ resp.input = <<"a", ".", "@", "a">>
    /\ resp.http = Err("Email domain must contain at least one dot")

----------------------------------------------------------------------------
(* What crosses the trust boundary, checked under SpecClock. *)

PublicFields == {"id", "email", "name", "created_at", "updated_at", "is_admin"}

\* u has the six public fields of the record with the record's values, and
\* nothing else
Projects(u, record) ==
    /\ DOMAIN u = PublicFields
    /\ \A f \in PublicFields : u[f] = record[f]

\* whatever user or listing the answer h carries is the projection of what the
\* store holds when the handler returns
AnswersProjections(h) ==
    /\ IsSome(h.http.user) =>
           \E e \in DOMAIN h.users : Projects(Unwrap(h.http.user), h.users[e])
    /\ IsSome(h.http.listing) =>
           LET listing == Unwrap(h.http.listing) IN
           /\ \A u \in listing.users :
                  \E e \in DOMAIN h.users : Projects(u, h.users[e])
           /\ \A e \in DOMAIN h.users :
                  \E u \in listing.users : Projects(u, h.users[e])

\* the claims of the session tokens that pass the middleware
SessionClaims == {ClaimsOf(t) : t \in {s \in sessions : Passes(s)}}

\* C24: to_public copies id, email, name, created_at, updated_at and is_admin
\* unchanged and carries no password hash, and every user record in the answer
\* of register, create_admin, login, update_user, update_user_role, list_users,
\* get_user and me is such a projection of the record the store holds when the
\* handler returns
C24_OnlyProjections ==
    /\ \A e \in DOMAIN users :
           /\ "password_hash" \in DOMAIN users[e]
           /\ Projects(to_public(users[e]), users[e])
    /\ \A request \in [email : Emails, name : {"Alice"}, password : {Pw1, PwWeak}],
          salt \in Salts :
           /\ AnswersProjections(register_endpoint(users, password_reset_tokens,
                                                   request, nextId, salt))
           /\ AnswersProjections(create_admin_endpoint(users, password_reset_tokens,
                                                       request, nextId, salt))
    /\ \A email \in AllEmails, password \in Passwords :
           AnswersProjections(login_endpoint(users, password_reset_tokens,
                                             [email |-> email, password |-> password]))
    /\ AnswersProjections(list_users_endpoint(users, password_reset_tokens))
    /\ \A user_id \in Ids, request \in UpdateRoleRequests :
           AnswersProjections(update_user_role_endpoint(users, password_reset_tokens,
                                                        user_id, request))
    /\ \A claims \in SessionClaims :
           /\ AnswersProjections(me_endpoint(users, password_reset_tokens, claims))
           /\ \A user_id \in Ids :
                  /\ AnswersProjections(get_user_endpoint(users, password_reset_tokens,
                                                          claims, user_id))
                  /\ \A request \in UpdateProfileRequests :
                         AnswersProjections(update_user_endpoint(
                             users, password_reset_tokens, claims, user_id, request))

\* a profile update, made after the clock moved, answered with the projection
\* of the record under its new email
C24_Witness ==
    /\ resp.op = "update_user"
    /\ resp.http.status = StatusOk
    /\ IsSome(resp.http.user)
    /\ Unwrap(resp.http.user).email = EmailB
    /\ Unwrap(resp.http.user).updated_at > Unwrap(resp.http.user).created_at
    /\ EmailB \in DOMAIN users
    /\ Projects(Unwrap(resp.http.user), users[EmailB])

----------------------------------------------------------------------------
(* Verification against whatever hash string a record holds.  The store's own
   operations write only hashes made by hash_password; here the record of the
   bootstrap admin is read back with a hash of one of its passwords or with a
   string that is no PHC string, and the holder of a session token issued
   earlier logs in, verifies and changes the password. *)

MalformedHash == [alg |-> "none", salt |-> "", digest |-> <<>>]
StoredHashes == {hash_password(p, s) : p \in {Pw1, Pw2}, s \in Salts} \cup {MalformedHash}

InitCrypto ==
    /\ now = 0
    /\ jwt_secret = "k1"
    /\ \E env \in BootstrapEnv, salt \in Salts, hash \in StoredHashes :
         LET r == new_with_admin(env, 1, salt) IN
         /\ users = [e \in DOMAIN r.users |->
                        [r.users[e] EXCEPT !.password_hash = hash]]
         /\ nextId = 2
         /\ password_set = IF hash = MalformedHash THEN EmptyMap
                           ELSE Insert(EmptyMap, 1, hash.digest[2])
         /\ sessions = {generate_token(1, env.email, env.name, TRUE, None)}
    /\ password_reset_tokens = EmptyMap
    /\ nextToken = 1
    /\ resp = [op |-> "start", input |-> None, http |-> MessageResponse(StatusOk, "")]
    /\ consumed = {}
    /\ issued_at = EmptyMap
    /\ TasksIdle

\* User::verify_password on the record stored under the email
VerifyPassword(email, password) ==
    /\ email \in DOMAIN users
    /\ resp' = [op |-> "verify_password",
                input |-> [hash |-> users[email].password_hash, password |-> password],
                http |-> User_verify_password(users[email], password)]
    /\ UNCHANGED <<users, password_reset_tokens, now, jwt_secret, nextId, nextToken,
                   sessions, consumed, issued_at, password_set, taskVars>>

NextCrypto ==
    \/ \E email \in AllEmails, password \in Passwords : VerifyPassword(email, password)
    \/ \E request \in [email : {EmailRoot, EmailA}, password : Passwords] :
           Login(request, FALSE)
    \/ \E headers \in PresentedHeaders, user_id \in Ids,
          request \in PasswordChanges, salt \in Salts :
           UpdatePassword(headers, user_id, request, salt)

SpecCrypto == InitCrypto /\ [][NextCrypto]_vars

\* the hash was made by hash_password from the password
HashOf(hash, password) == \E s \in Salts : hash = hash_password(password, s)
WellFormed(hash) == \E p \in Passwords : HashOf(hash, p)

\* C25: verification gives true when the password matches a well-formed stored
\* hash, false when it does not match a well-formed hash, and an error when
\* the stored hash is malformed; login and update_password report the error as
\* 'Authentication error', not as a wrong password, and change nothing
C25_ThreeOutcomes ==
    \A email \in DOMAIN users, password \in Passwords :
        LET user == users[email]
            hash == user.password_hash
            v == verify_password(hash, password)
            l == login(users, password_reset_tokens,
                       [email |-> email, password |-> password])
        IN  /\ (WellFormed(hash) /\ HashOf(hash, password)) =>
                   (v.ok /\ v.valid /\ l.ok)
            /\ (WellFormed(hash) /\ ~HashOf(hash, password)) =>
                   (v.ok /\ ~v.valid /\ ~l.ok
                    /\ l.message = "Invalid email or password")
            /\ ~WellFormed(hash) =>
                   (~v.ok /\ ~l.ok /\ l.message = "Authentication error")
            /\ \A new_password \in Passwords, salt \in Salts :
                   LET u == update_password(users, password_reset_tokens, user.id,
                                            [current_password |-> password,
                                             new_password |-> new_password], salt)
                   IN  /\ (WellFormed(hash) /\ ~HashOf(hash, password)) =>
                              (~u.ok /\ u.message = "Current password is incorrect")
                       /\ ~WellFormed(hash) =>
                              (~u.ok /\ u.message = "Authentication error"
                               /\ u.users = users)

\* a login and a password change met a malformed hash
C25_Witness ==
    /\ resp.op \in {"login", "update_password"}
    /\ resp.http.message = "Authentication error"
    /\ \E e \in DOMAIN users : users[e].password_hash = MalformedHash

----------------------------------------------------------------------------
(* Sessions: callers register or log in and keep the token, ask for a reset
   token, call me, log out, and the clock runs up to and past the expiry of
   the session tokens. *)

SessionInstants == {1, 86400, 86401, 86461}

NextSession ==
    \/ \E request \in [email : {EmailA}, name : {"Alice"}, password : {Pw1}],
          salt \in Salts, keep \in BOOLEAN : Register(request, salt, keep)
    \/ \E request \in [email : {EmailRoot}, password : {Pw1}], keep \in BOOLEAN :
           Login(request, keep)
    \/ \E request \in [email : {EmailA}] : ForgotPassword(request)
    \/ Logout
    \/ \E headers \in PresentedHeaders : Me(headers)
    \/ \E t \in SessionInstants : Advance(t)

SpecSession == Init /\ [][NextSession]_vars

\* validate_token accepts the session token
Accepted(t) == validate_token(t.token).ok

\* C26: a logout step leaves the directory and the reset ledger as they were,
\* and every session token accepted before the step is accepted after it; a
\* session token is accepted in every state up to its expiry, whatever
\* logouts there were
C26_LogoutStateless ==
    /\ [](\A t \in sessions : now <= t.token.claims.exp => Accepted(t))
    /\ [][(resp' # resp /\ resp'.op = "logout") =>
              /\ users' = users
              /\ password_reset_tokens' = password_reset_tokens
              /\ \A t \in sessions : Accepted(t) => Accepted(t)']_vars

\* after a logout, with users and reset tokens in the store, the holder's
\* token still passes the middleware and me answers
C26_Witness ==
    /\ resp.op = "logout"
    /\ Cardinality(DOMAIN users) > 1
    /\ password_reset_tokens # EmptyMap
    /\ \E t \in sessions :
           /\ Accepted(t)
           /\ now > t.token.claims.iat
           /\ me_endpoint(users, password_reset_tokens, ClaimsOf(t)).http.status = StatusOk

----------------------------------------------------------------------------
(* Deletion, checked under SpecClock. *)

\* C27: delete_user removes the record with the id and no other and leaves
\* the rest as it was; then the id and the email find nothing, login with the
\* email fails, and a registration with the email is not refused as a
\* duplicate and succeeds when email and password satisfy the policy; for an
\* id that is not stored it fails with 'User not found' and changes nothing
C27_DeleteExactlyOne ==
    \A user_id \in Ids :
        LET target == get_user_by_id(users, user_id)
            r == delete_user(users, password_reset_tokens, user_id)
        IN  /\ r.tokens = password_reset_tokens
            /\ ~IsSome(target) =>
                   (~r.ok /\ r.message = "User not found" /\ r.users = users)
            /\ IsSome(target) =>
                   LET email == Unwrap(target).email IN
                   /\ r.ok
                   /\ DOMAIN r.users = {e \in DOMAIN users : users[e].id # user_id}
                   /\ \A e \in DOMAIN r.users : r.users[e] = users[e]
                   /\ ~IsSome(get_user_by_id(r.users, user_id))
                   /\ ~IsSome(get_user_by_email(r.users, email))
                   /\ \A password \in Passwords :
                          ~login(r.users, r.tokens,
                                 [email |-> email, password |-> password]).ok
                   /\ \A password \in Passwords, salt \in Salts :
                          LET again == register(r.users, r.tokens,
                                                [email |-> email, name |-> "Alice",
                                                 password |-> password],
                                                nextId, salt)
                          IN  /\ again.message # "User with this email already exists"
                              /\ again.ok <=>
                                     (validate_email(email).ok
                                      /\ validate_password_strength(password).ok)
                              /\ again.ok =>
                                     /\ Unwrap(get_user_by_email(again.users, email)).id
                                            = nextId
                                     /\ nextId # user_id

\* a stored user was deleted and another remains
C27_Witness ==
    /\ resp.op = "delete_user"
    /\ resp.http.status = StatusOk
    /\ ~IsSome(get_user_by_id(users, resp.input.user_id))
    /\ resp.input.user_id < nextId
    /\ DOMAIN users # {}


----------------------------------------------------------------------------
(* Every store endpoint under the lock: the write handlers of auth.rs and
   admin.rs beside register and update_user, and the read handlers.  A write
   handler calls one UserStore method under its guard; the method reads the
   maps, then writes them. *)

\* the claims the auth layer hands to me_endpoint
IssuedClaims == {Unwrap(auth_middleware(h).claims) : h \in IssuedHeaders \ {NoHeader}}

\* requests as the handlers admit them; update_password, delete_user and the
\* admin routes are past their access check
SerialRequests ==
    [op : {"register"},
     request : {[email |-> EmailA, name |-> "Alice", password |-> Pw1]}]
    \cup [op : {"create_admin"},
          request : {[email |-> EmailB, name |-> "Bob", password |-> Pw1]}]
    \cup [op : {"update_user"}, headers : IssuedHeaders, user_id : {1},
          request : {[name |-> None, email |-> Some(EmailB)]}]
    \cup [op : {"update_password"}, user_id : {1},
          request : {[current_password |-> Pw1, new_password |-> Pw2]}]
    \cup [op : {"delete_user"}, user_id : {1}]
    \cup [op : {"update_user_role"}, user_id : {1}, request : {[is_admin |-> TRUE]}]
    \cup [op : {"forgot_password"}, request : {[email |-> EmailA]}]
    \cup [op : {"reset_password"}, request : {[token |-> 1, new_password |-> Pw2]}]
    \cup [op : {"login"}, request : {[email |-> EmailA, password |-> Pw1]}]
    \cup [op : {"me"}, claims : IssuedClaims]
    \cup [op : {"get_user"}, headers : IssuedHeaders, user_id : {1}]
    \cup [op : {"list_users"}]

\* the handler of a write request on the store st its guard gives it: the
\* store it leaves and its response
StoreMethod(st, r, salt) ==
    IF r.op = "register"
      THEN register_endpoint(st.users, st.tokens, r.request, st.nextId, salt)
    ELSE IF r.op = "create_admin"
      THEN create_admin_endpoint(st.users, st.tokens, r.request, st.nextId, salt)
    ELSE IF r.op = "update_user"
      THEN Respond(update_user(st.users, st.tokens, r.user_id, r.request),
                   StatusBadRequest)
    ELSE IF r.op = "update_password"
      THEN Respond(update_password(st.users, st.tokens, r.user_id, r.request, salt),
                   StatusBadRequest)
    ELSE IF r.op = "delete_user"
      THEN Respond(delete_user(st.users, st.tokens, r.user_id), StatusNotFound)
    ELSE IF r.op = "update_user_role"
      THEN update_user_role_endpoint(st.users, st.tokens, r.user_id, r.request)
    ELSE IF r.op = "forgot_password"
      THEN forgot_password_endpoint(st.users, st.tokens, r.request, st.nextToken)
    ELSE reset_password_endpoint(st.users, st.tokens, r.request, salt)

\* a lookup made under a guard that is dropped before the mutation
Lookup_drops_guard(t) ==
    /\ pc[t] = "lookup"
    /\ \E salt \in Salts :
         LET h == StoreMethod(StoreNow, Unwrap(req[t]), salt) IN
         /\ loc' = [loc EXCEPT ![t] = Some(h)]
         /\ nextId' = IF Op(t) = "create_admin" /\ h.http.status = StatusOk
                        THEN nextId + 1 ELSE nextId
         /\ nextToken' = IF Op(t) = "forgot_password" /\ h.http.status = StatusOk
                           THEN nextToken + 1 ELSE nextToken
    /\ writer' = 0
    /\ Goto(t, "commit")
    /\ UNCHANGED <<users, password_reset_tokens, now, jwt_secret, sessions, resp,
                   consumed, issued_at, password_set, readers, req, out,
                   registered, updated, seen, queue, orders, issued_to>>

\* the method's lookups and checks: what it will answer and what it will write
Lookup(t) ==
    /\ pc[t] = "lookup"
    /\ \E salt \in Salts :
         LET h == StoreMethod(StoreNow, Unwrap(req[t]), salt) IN
         /\ loc' = [loc EXCEPT ![t] = Some(h)]
         /\ nextId' = IF Op(t) = "create_admin" /\ h.http.status = StatusOk
                        THEN nextId + 1 ELSE nextId
         /\ nextToken' = IF Op(t) = "forgot_password" /\ h.http.status = StatusOk
                           THEN nextToken + 1 ELSE nextToken
    /\ Goto(t, "commit")
    /\ UNCHANGED <<users, password_reset_tokens, now, jwt_secret, sessions, resp,
                   consumed, issued_at, password_set, writer, readers, req, out,
                   registered, updated, seen, queue, orders, issued_to>>

\* the method's writes to the two maps, and the handler's response
Commit(t) ==
    /\ pc[t] = "commit"
    /\ users' = Local(t).users
    /\ password_reset_tokens' = Local(t).tokens
    /\ Finish(t, Local(t).http)
    /\ UNCHANGED <<now, jwt_secret, nextId, nextToken, sessions, resp, consumed,
                   issued_at, password_set, writer, readers, req, loc, registered,
                   updated, seen, queue, orders, issued_to>>

NextSerial ==
    \/ \E t \in Tasks, r \in SerialRequests : Arrive(t, r)
    \/ \E t \in Tasks : AcquireWrite(t)
    \/ \E t \in Tasks : AcquireRead(t)
    \/ \E t \in Tasks : RegisterCheck(t)
    \/ \E t \in Tasks : RegisterInsert(t)
    \/ \E t \in Tasks : UpdateCheck(t)
    \/ \E t \in Tasks : UpdateMutate(t)
    \/ \E t \in Tasks : UpdateRemove(t)
    \/ \E t \in Tasks : UpdateInsert(t)
    \/ \E t \in Tasks : Lookup(t)
    \/ \E t \in Tasks : Commit(t)
    \/ \E t \in Tasks : Read(t)
    \/ \E t \in Tasks : Release(t)

SpecSerial == InitConc /\ [][NextSerial]_vars


----------------------------------------------------------------------------
(* Claims about the store endpoints under the lock, checked under SpecSerial *)

\* the positions of a handler between its guard being granted and dropped
WriteSteps == {"reg_check", "reg_insert", "upd_check", "upd_mutate", "upd_remove",
               "upd_insert", "lookup", "commit"}
Guarded == WriteSteps \cup {"read", "release"}

\* the task holds the guard its handler awaited, and nobody holds another
\* beside a writer
HoldsGuard(t) ==
    IF Op(t) \in WriteOps
      THEN writer = t /\ readers = {} /\ \A u \in Tasks \ {t} : pc[u] \notin Guarded
      ELSE t \in readers /\ writer = 0 /\ \A u \in Tasks : pc[u] \notin WriteSteps

Answered(t) == pc[t] = "release" /\ IsSome(out[t])

\* C28: every execution of the store endpoints is equivalent to running their
\* UserStore methods one at a time in the order the guards were granted: a
\* handler holds the guard it awaited, write or read by its kind, from the
\* grant to its return, a writer alone; the store a finished write handler
\* leaves and its answer are those of its method applied to the store as its
\* guard was granted; a reader's answer is that of its method on the store as
\* its guard was granted, and the store stays as it was given for as long as
\* the reader holds its guard, with no write in progress.
C28_Serializable ==
    \A t \in Tasks :
      /\ pc[t] \in Guarded => IsSome(seen[t]) /\ HoldsGuard(t)
      /\ (pc[t] \in Guarded /\ Op(t) \in ReadOps) =>
           /\ users = Unwrap(seen[t]).users
           /\ password_reset_tokens = Unwrap(seen[t]).tokens
      /\ (Answered(t) /\ Op(t) \in ReadOps) =>
           Unwrap(out[t]) = ReadAnswer(Unwrap(seen[t]), Unwrap(req[t]))
      /\ (Answered(t) /\ Op(t) \in WriteOps) =>
           \E salt \in Salts :
             LET h == StoreMethod(Unwrap(seen[t]), Unwrap(req[t]), salt) IN
             /\ Unwrap(out[t]) = h.http
             /\ users = h.users
             /\ password_reset_tokens = h.tokens

\* a reset_password has consumed its token and changed the password, and
\* still holds the write guard, while a login waits for the store
C28_Witness ==
    \E t1 \in Tasks, t2 \in Tasks :
      /\ Answered(t1) /\ Op(t1) = "reset_password"
      /\ Unwrap(out[t1]).status = StatusOk
      /\ users # Unwrap(seen[t1]).users
      /\ password_reset_tokens # Unwrap(seen[t1]).tokens
      /\ pc[t2] = "wait_read" /\ Op(t2) = "login"


----------------------------------------------------------------------------
(* The lock as tokio schedules it: RwLock queues the tasks awaiting a guard
   first come first served, grants the head of the queue when the guards held
   allow it, and the runtime polls every task that can run.  A handler awaits
   nothing between the grant of its guard and its return. *)

\* forgot-password, reset-password and directory requests
FairRequests ==
    [op : {"register"},
     request : {[email |-> EmailA, name |-> "Alice", password |-> Pw1]}]
    \cup [op : {"update_user"}, headers : IssuedHeaders, user_id : {1},
          request : {[name |-> None, email |-> Some(EmailB)]}]
    \cup [op : {"delete_user"}, user_id : {1}]
    \cup [op : {"forgot_password"}, request : {[email |-> EmailA], [email |-> EmailB]}]
    \cup [op : {"reset_password"}, request : {[token |-> 1, new_password |-> Pw2]}]
    \cup [op : {"login"}, request : {[email |-> EmailA, password |-> Pw1]}]

\* a request reaches its handler and joins the lock's queue
Await(t, r) ==
    /\ pc[t] = "idle"
    /\ r.op \in {"register", "create_admin"}
         => nextId + Cardinality(PendingRegisters) <= MaxUsers
    /\ r.op = "forgot_password" => nextToken + Cardinality(PendingForgots) <= MaxTokens
    /\ Gate(r) = None
    /\ req' = [req EXCEPT ![t] = Some(Admitted(r))]
    /\ Goto(t, IF r.op \in WriteOps THEN "wait_write" ELSE "wait_read")
    /\ queue' = Append(queue, t)
    /\ UNCHANGED <<storeVars, writer, readers, loc, out, registered, updated, seen, orders, issued_to>>

\* write().await resolves: the task heads the queue and nobody holds a guard
GrantWrite(t) ==
    /\ pc[t] = "wait_write"
    /\ queue # <<>> /\ Head(queue) = t
    /\ CanWrite(t)
    /\ writer' = t
    /\ queue' = Tail(queue)
    /\ seen' = [seen EXCEPT ![t] = Some(StoreNow)]
    /\ Goto(t, FirstStep(Op(t)))
    /\ UNCHANGED <<storeVars, readers, req, loc, out, registered, updated, orders, issued_to>>

\* read().await resolves: the task heads the queue and no writer holds the guard
GrantRead(t) ==
    /\ pc[t] = "wait_read"
    /\ queue # <<>> /\ Head(queue) = t
    /\ CanRead(t)
    /\ readers' = readers \cup {t}
    /\ queue' = Tail(queue)
    /\ seen' = [seen EXCEPT ![t] = Some(StoreNow)]
    /\ Goto(t, "read")
    /\ UNCHANGED <<storeVars, writer, req, loc, out, registered, updated, orders, issued_to>>

\* a handler's next statement, from the grant of its guard to its return
Proceed(t) ==
    \/ RegisterCheck(t)
    \/ RegisterInsert(t)
    \/ UpdateCheck(t)
    \/ UpdateMutate(t)
    \/ UpdateRemove(t)
    \/ UpdateInsert(t)
    \/ Lookup(t)
    \/ Commit(t)
    \/ Read(t)
    \/ Release(t)

NextFair ==
    \/ \E t \in Tasks, r \in FairRequests : Await(t, r)
    \/ \E t \in Tasks : GrantWrite(t)
    \/ \E t \in Tasks : GrantRead(t)
    \/ \E t \in Tasks : Proceed(t)

\* the runtime polls a task whose guard can be granted or that holds one
Polled ==
    \A t \in Tasks :
      /\ WF_vars(GrantWrite(t))
      /\ WF_vars(GrantRead(t))
      /\ WF_vars(Proceed(t))

SpecFair == InitConc /\ [][NextFair]_vars /\ Polled


----------------------------------------------------------------------------
(* Claims about progress, checked under SpecFair *)

Waiting(t) == pc[t] \in {"wait_write", "wait_read"}

\* C29: under the lock's first come first served queue and a runtime that
\* polls every runnable task, every forgot-password, reset-password and
\* directory request that has started gets its response and returns, whatever
\* the other requests do: a task that waits for the lock holds no guard, and a
\* task that holds a guard never waits.
C29_RequestsComplete ==
    /\ [](\A t \in Tasks : Waiting(t) => writer # t /\ t \notin readers)
    /\ \A t \in Tasks : (pc[t] # "idle") ~> Answered(t)
    /\ \A t \in Tasks : Answered(t) ~> (pc[t] = "idle")

\* a reset-password request is in the queue while another task holds the write
\* guard in the middle of its store method, a reset token being on the ledger
C29_Witness ==
    \E t1 \in Tasks, t2 \in Tasks :
      /\ writer = t1 /\ pc[t1] \in WriteSteps
      /\ Waiting(t2) /\ Op(t2) = "reset_password"
      /\ t2 \in {queue[i] : i \in 1..Len(queue)}
      /\ password_reset_tokens # EmptyMap


----------------------------------------------------------------------------
(* Records over time with the reset flow: accounts are registered, reset
   tokens are issued and used, and the clock moves on between the requests. *)

StampInstants == {1, 2}

NextStamp ==
    \/ \E request \in [email : {EmailA}, name : {"Alice"}, password : {Pw1}],
          salt \in Salts : Register(request, salt, FALSE)
    \/ \E request \in [email : {EmailA, EmailRoot}] : ForgotPassword(request)
    \/ \E request \in [token : TokenIds, new_password : {Pw2}], salt \in Salts :
           ResetPassword(request, salt)
    \/ \E t \in StampInstants : Advance(t)

SpecStamp == Init /\ [][NextStamp]_vars

----------------------------------------------------------------------------
(* updated_at, checked under SpecStamp: in every reachable store and at every
   reading of the clock, each store method is applied to every user id with
   every request *)

StampOf(us, id) ==
    LET user == get_user_by_id(us, id)
    IN  IF IsSome(user) THEN Some(Unwrap(user).updated_at) ELSE None

StoredIds == {users[e].id : e \in DOMAIN users}

\* the outcome r of a store method sets the updated_at of the user it acted
\* on to the clock when it succeeded, and keeps that of every other stored
\* user, and of every stored user when it failed
StampsOnly(r, target) ==
    \A id \in StoredIds :
      IF r.ok /\ target = Some(id)
        THEN StampOf(r.users, id) = Some(now)
        ELSE StampOf(r.users, id) = StampOf(users, id)

\* the requests the methods are applied with: no field, one, or both; a right
\* or wrong current password with an acceptable or a weak new one
StampProfileRequests ==
    [name : {None, Some("Bob")}, email : {None, Some(EmailA), Some(EmailB)}]
StampPasswordRequests ==
    [current_password : {Pw1, Pw2}, new_password : {Pw2, PwWeak}]

\* the id of the user a reset token stands for, if any
ResetTarget(token) ==
    IF token \in DOMAIN password_reset_tokens
         /\ password_reset_tokens[token].email \in DOMAIN users
      THEN Some(users[password_reset_tokens[token].email].id)
      ELSE None

\* C30: a stored user's updated_at becomes the current time with every
\* successful update_user (also one that supplies neither email nor name),
\* update_password, reset_password and update_user_role on that user; it is
\* kept by each of them when it fails or acts on another user, and by
\* register, create_admin, login, generate_password_reset_token and the
\* deletion of another user.
C30_UpdatedAtFrame ==
    LET us == users
        prt == password_reset_tokens
    IN
    /\ \A target \in Ids, request \in StampProfileRequests :
         StampsOnly(update_user(us, prt, target, request), Some(target))
    /\ \A target \in Ids, request \in StampPasswordRequests, salt \in Salts :
         StampsOnly(update_password(us, prt, target, request, salt), Some(target))
    /\ \A target \in Ids, request \in UpdateRoleRequests :
         StampsOnly(update_user_role(us, prt, target, request), Some(target))
    /\ \A request \in [token : PresentableTokens, new_password : {Pw2, PwWeak}],
          salt \in Salts :
         StampsOnly(reset_password(us, prt, request, salt), ResetTarget(request.token))
    /\ \A request \in [email : {EmailA, EmailB}, name : {"Alice"}, password : {Pw1}],
          salt \in Salts :
         /\ StampsOnly(register(us, prt, request, nextId, salt), None)
         /\ StampsOnly(create_admin(us, prt, request, nextId, salt), None)
    /\ \A request \in [email : {EmailA, EmailRoot}, password : {Pw1, Pw2}] :
         StampsOnly(login(us, prt, request), None)
    /\ \A email \in AllEmails :
         StampsOnly(generate_password_reset_token(us, prt, email, nextToken), None)
    /\ \A target \in Ids :
         LET r == delete_user(us, prt, target) IN
         \A id \in StoredIds \ {target} : StampOf(r.users, id) = StampOf(users, id)

\* a reset_password has just stamped one user, at a time later than the
\* creation of the record, and the other stored user keeps an earlier stamp
C30_Witness ==
    /\ resp.op = "reset_password"
    /\ resp.http.status = StatusOk
    /\ \E e1 \in DOMAIN users, e2 \in DOMAIN users :
         /\ e1 # e2
         /\ users[e1].updated_at = now
         /\ users[e1].created_at < now
         /\ users[e2].updated_at < now


----------------------------------------------------------------------------
(* The server as main.rs starts it: UserStore::new_with_admin() with whatever
   BOOTSTRAP_ADMIN_EMAIL, BOOTSTRAP_ADMIN_NAME and BOOTSTRAP_ADMIN_PASSWORD
   hold, then the public routes. *)

\* values the three variables may be set to
ConfiguredEnvs ==
    [email : {EmailRoot, EmailBad}, name : {"Root"}, password : {Pw1, PwWeak}]

InitBoot ==
    /\ now = 0
    /\ jwt_secret = "k1"
    /\ \E env \in ConfiguredEnvs, salt \in Salts :
         LET r == new_with_admin(env, 1, salt) IN
         /\ users = r.users
         /\ nextId = IF r.ok THEN 2 ELSE 1
         /\ password_set = IF r.ok THEN Insert(EmptyMap, 1, env.password) ELSE EmptyMap
         /\ resp = [op |-> "start", input |-> env, http |-> MessageResponse(StatusOk, "")]
    /\ password_reset_tokens = EmptyMap
    /\ nextToken = 1
    /\ sessions = {}
    /\ consumed = {}
    /\ issued_at = EmptyMap
    /\ TasksIdle

NextBoot ==
    \/ \E request \in [email : {EmailA, EmailRoot}, name : {"Alice"}, password : {Pw1}],
          salt \in Salts, keep \in BOOLEAN : Register(request, salt, keep)
    \/ \E request \in [email : {EmailA, EmailRoot}, password : {Pw1, PwWeak}],
          keep \in BOOLEAN : Login(request, keep)
    \/ \E headers \in PresentedHeaders : ListUsers(headers)
    \/ \E request \in [email : {EmailA, EmailRoot}] : ForgotPassword(request)

SpecBoot == InitBoot /\ [][NextBoot]_vars

\* C31: the store new_with_admin returns holds exactly one user, stored under
\* the configured bootstrap email and with is_admin = true, whatever the
\* configured email, name and password are
C31_BootstrapAdmin ==
    resp.op = "start" =>
        /\ DOMAIN users = {resp.input.email}
        /\ users[resp.input.email].is_admin

\* when the configured email and password pass the validators the store holds
\* the one admin, and otherwise it is empty
BootstrapWhenValid ==
    resp.op = "start" =>
        IF validate_email(resp.input.email).ok
             /\ validate_password_strength(resp.input.password).ok
          THEN /\ DOMAIN users = {resp.input.email}
               /\ users[resp.input.email].is_admin
               /\ users[resp.input.email].email = resp.input.email
          ELSE users = EmptyMap


----------------------------------------------------------------------------
(* The orders endpoint of the storefront crate: POST /orders validates the
   request, generates an order id, prices the prints and answers 201 with the
   OrderResponse or 400 with ORDER_PROCESSING_FAILED. *)

\* orders the history keeps
MaxOrders == 2
SecondsPerDay == 86400
StatusCreated == 201
\* the second instant lies on the same UTC day as the first, the third on the next
OrderInstants == {1, SecondsPerDay}

\* now.format("%Y%m%d"): the calendar day of an instant
FormatDay(t) == t \div SecondsPerDay

\* a print of one image, and the same with each field the code refuses
OrderPrint == [size |-> "4x6", finish |-> "matte", quantity |-> 1, image_ids |-> 1]
OrderPrints ==
    {OrderPrint, [OrderPrint EXCEPT !.size = "9x9"], [OrderPrint EXCEPT !.finish = "satin"],
     [OrderPrint EXCEPT !.quantity = 0], [OrderPrint EXCEPT !.image_ids = 0]}
OrderRequests ==
    [name : {"", "Alice"}, email : {"a@x.io"},
     prints : {<<>>} \cup {<<p>> : p \in OrderPrints},
     shipping_option : {"USPS_Ground", "Drone"},
     method : {"credit_card", "paypal", "cash"},
     paypal_order_id : {None, Some("PP1")}]

\* Ok(value) of a Result
OkWith(v) == [ok |-> TRUE, err |-> "", val |-> v]

validate_order_request(request) ==
    IF request.name = "" THEN Err("Customer name is required")
    ELSE IF request.email = "" THEN Err("Customer email is required")
    ELSE IF request.prints = <<>> THEN Err("At least one print item is required")
    ELSE IF \E i \in 1..Len(request.prints) : request.prints[i].quantity = 0
      THEN Err("Print quantity must be greater than 0")
    ELSE IF \E i \in 1..Len(request.prints) : request.prints[i].image_ids = 0
      THEN Err("At least one image ID is required for each print")
    ELSE Ok

generate_order_id(t) == <<"ord", FormatDay(t), "0001">>

\* prices in cents
UnitPrice(size) ==
    CASE size = "4x6" -> Some(150) [] size = "5x7" -> Some(200)
      [] size = "8x10" -> Some(400) [] size = "11x14" -> Some(800)
      [] OTHER -> None
FinishPremium(finish) ==
    CASE finish = "glossy" -> Some(0) [] finish = "matte" -> Some(25)
      [] finish = "metallic" -> Some(50) [] OTHER -> None
ShippingPrice(option) ==
    CASE option = "USPS_Ground" -> Some(500) [] option = "USPS_Priority" -> Some(750)
      [] option = "USPS_Express" -> Some(1200) [] option = "UPS_Ground" -> Some(650)
      [] option = "UPS_2Day" -> Some(1000) [] option = "UPS_Overnight" -> Some(2000)
      [] OTHER -> None

RECURSIVE ItemsSubtotal(_)
ItemsSubtotal(prints) ==
    IF prints = <<>> THEN 0
    ELSE LET print == Head(prints) IN
         (Unwrap(UnitPrice(print.size)) + Unwrap(FinishPremium(print.finish)))
           * print.quantity * print.image_ids
         + ItemsSubtotal(Tail(prints))

calculate_totals(prints, shipping_option) ==
    IF \E i \in 1..Len(prints) : ~IsSome(UnitPrice(prints[i].size))
      THEN Err("Unsupported print size")
    ELSE IF \E i \in 1..Len(prints) : ~IsSome(FinishPremium(prints[i].finish))
      THEN Err("Unsupported finish")
    ELSE IF ~IsSome(ShippingPrice(shipping_option))
      THEN Err("Unsupported shipping option")
    ELSE LET items_subtotal == ItemsSubtotal(prints)
             shipping == Unwrap(ShippingPrice(shipping_option))
             tax == ((items_subtotal + shipping) * 7 + 50) \div 100
         IN  OkWith([items_subtotal |-> items_subtotal, shipping |-> shipping,
                     tax |-> tax, grand_total |-> items_subtotal + shipping + tax])

process_order(request, t) ==
    LET valid == validate_order_request(request)
        order_id == generate_order_id(t)
        total == calculate_totals(request.prints, request.shipping_option)
    IN  IF ~valid.ok THEN valid
        ELSE IF ~total.ok THEN total
        ELSE IF request.method = "paypal"
          THEN IF ~IsSome(request.paypal_order_id)
                 THEN Err("PayPal order ID is required")
                 ELSE OkWith([order_id |-> order_id, status |-> "pending_payment",
                              paypal |-> request.paypal_order_id, total |-> total.val])
        ELSE IF request.method = "credit_card"
          THEN OkWith([order_id |-> order_id, status |-> "processing",
                       paypal |-> None, total |-> total.val])
        ELSE Err("Unsupported payment method")

orders_endpoint(request) ==
    LET r == process_order(request, now) IN
    /\ Len(orders) < MaxOrders \/ ~r.ok
    /\ orders' = IF r.ok THEN Append(orders, r.val) ELSE orders
    /\ resp' = [op |-> "orders", input |-> request,
                http |-> IF r.ok THEN MessageResponse(StatusCreated, "")
                                 ELSE MessageResponse(StatusBadRequest, r.err)]
    /\ UNCHANGED <<users, password_reset_tokens, now, jwt_secret, nextId, nextToken,
                   sessions, consumed, issued_at, password_set, writer, readers, pc,
                   req, loc, out, registered, updated, seen, queue, issued_to>>

NextOrders ==
    \/ \E request \in OrderRequests : orders_endpoint(request)
    \/ \E t \in OrderInstants : Advance(t)

SpecOrders == Init /\ [][NextOrders]_vars

\* C32: any two successfully processed orders carry different order ids, two
\* orders processed on the same day included
C32_OrderIdsUnique ==
    \A i, j \in 1..Len(orders) : i # j => orders[i].order_id # orders[j].order_id

\* across days the ids do differ: the day is the only part of the id that varies
OrderIdsDifferAcrossDays ==
    \A i, j \in 1..Len(orders) :
        orders[i].order_id = orders[j].order_id
          <=> orders[i].order_id[2] = orders[j].order_id[2]


----------------------------------------------------------------------------
(* The shape of the users map over the whole account lifecycle *)

\* C33: in every reachable store each entry of the users map is stored under
\* the email its own record carries, and no two entries carry the same id,
\* after any sequence of register, create_admin, update_user, update_password,
\* update_user_role, delete_user and reset_password
C33_KeysMatchEmails ==
    /\ \A e \in DOMAIN users : users[e].email = e
    /\ \A e1, e2 \in DOMAIN users : users[e1].id = users[e2].id => e1 = e2

\* update_user has just moved a record to a new email while another account
\* is stored next to it
C33_Witness ==
    /\ resp.op = "update_user" /\ resp.http.status = StatusOk
    /\ IsSome(resp.input.request.email)
    /\ Unwrap(resp.input.request.email) \in DOMAIN users
    /\ users[Unwrap(resp.input.request.email)].id = resp.input.user_id
    /\ \A e \in DOMAIN users : users[e].id = resp.input.user_id
                                 => e = Unwrap(resp.input.request.email)
    /\ Cardinality(DOMAIN users) >= 2
    /\ EmailA \notin DOMAIN users


----------------------------------------------------------------------------
(* The email policy over the operations that store an email: register,
   create_admin and update_user, with addresses the policy accepts and one it
   rejects. *)

NextEmail ==
    \/ \E request \in [email : {EmailA, EmailBad}, name : {"Alice"}, password : {Pw1}],
          salt \in Salts : Register(request, salt, TRUE)
    \/ \E headers \in PresentedHeaders,
          request \in [email : {EmailB, EmailBad}, name : {"Bob"}, password : {Pw2}],
          salt \in Salts : CreateAdmin(headers, request, salt)
    \/ \E request \in [email : {EmailRoot}, password : {Pw1}] : Login(request, TRUE)
    \/ \E headers \in PresentedHeaders, user_id \in Ids,
          request \in [name : {None}, email : {Some(EmailB), Some(EmailBad)}] :
           UpdateUser(headers, user_id, request)

SpecEmail == Init /\ [][NextEmail]_vars

\* C34: in every reachable store the email of every stored user satisfies
\* validate_email, whatever register, create_admin and update_user calls came
\* before
C34_StoredEmailsValid ==
    \A e \in DOMAIN users : validate_email(users[e].email).ok

\* register and create_admin on their own keep the policy: a stored email the
\* policy rejects was put there by update_user
InvalidEmailOnlyByUpdate ==
    [][(\A e \in DOMAIN users : validate_email(users[e].email).ok)
         /\ ~(\A e \in DOMAIN users' : validate_email(users'[e].email).ok)
       => resp'.op = "update_user" /\ resp'.http.status = StatusOk]_vars


----------------------------------------------------------------------------
(* A reset token and the account it was issued for *)

\* the directory changes hands between the issue of a token and its use:
\* accounts move to another email, are deleted, and a freed email is taken
NextHandover ==
    \/ \E request \in [email : {EmailA}, name : {"Alice"}, password : {Pw1}],
          salt \in Salts : Register(request, salt, FALSE)
    \/ \E request \in [email : {EmailRoot}, password : {Pw1}] : Login(request, TRUE)
    \/ \E headers \in PresentedHeaders, user_id \in Ids,
          request \in [name : {None}, email : {Some(EmailA), Some(EmailB)}] :
           UpdateUser(headers, user_id, request)
    \/ \E headers \in PresentedHeaders, user_id \in Ids : DeleteUser(headers, user_id)
    \/ \E request \in [email : {EmailA}] : ForgotPassword(request)
    \/ \E request \in [token : TokenIds, new_password : {Pw2}],
          salt \in Salts : ResetPassword(request, salt)

SpecHandover == Init /\ [][NextHandover]_vars

\* C35: a successful reset_password with a token changes the password only of
\* the user, by id, who held the token's email when the token was issued,
\* whatever delete_user, update_user and register calls came in between
C35_ResetHitsIssuedUser ==
    \A token \in DOMAIN password_reset_tokens \cap DOMAIN issued_to, salt \in Salts :
        LET r == reset_password(users, password_reset_tokens,
                                [token |-> token, new_password |-> Pw2], salt)
        IN  r.ok => \A e \in DOMAIN users :
                      r.users[e] # users[e] => users[e].id = issued_to[token]

\* a token never resets an account stored under another email than the one it
\* was issued for: the ledger binds the token to the email, not to the user
ResetHitsIssuedEmail ==
    \A token \in DOMAIN password_reset_tokens, salt \in Salts :
        LET r == reset_password(users, password_reset_tokens,
                                [token |-> token, new_password |-> Pw2], salt)
        IN  r.ok => \A e \in DOMAIN users :
                      r.users[e] # users[e] => e = password_reset_tokens[token].email


----------------------------------------------------------------------------
(* Admin-only routes after the caller's role was taken away or the caller's
   account was deleted *)

NextRevoke ==
    \/ \E request \in [email : {EmailA}, name : {"Alice"}, password : {Pw1}],
          salt \in Salts : Register(request, salt, FALSE)
    \/ \E request \in [email : {EmailRoot}, password : {Pw1}] : Login(request, TRUE)
    \/ \E headers \in PresentedHeaders, user_id \in Ids,
          request \in UpdateRoleRequests : UpdateUserRole(headers, user_id, request)
    \/ \E headers \in PresentedHeaders, user_id \in Ids : DeleteUser(headers, user_id)
    \/ \E headers \in PresentedHeaders : ListUsers(headers)
    \/ \E headers \in PresentedHeaders,
          request \in [email : {EmailB}, name : {"Bob"}, password : {Pw2}],
          salt \in Salts : CreateAdmin(headers, request, salt)

SpecRevoke == Init /\ [][NextRevoke]_vars

\* the last request reached the handler of an admin-only route
AdminOpPerformed ==
    /\ resp.op \in {"list_users", "update_user_role", "create_admin"}
    /\ resp.http.status \notin {StatusUnauthorized, StatusForbidden}

\* the user id in the token the last request presented
CallerId == Unwrap(ParseUuid(Unwrap(admin_middleware(resp.input.headers).claims).sub))

\* C36: an admin-only operation (list users, change a role, create an admin)
\* is carried out only for a caller whose record is in the directory with
\* is_admin = true; a role change on the caller's own record is left aside,
\* since it alters the record it is judged by
C36_AdminOpsByCurrentAdmins ==
    (AdminOpPerformed
       /\ ~(resp.op = "update_user_role" /\ resp.input.user_id = CallerId))
      => \E e \in DOMAIN users : users[e].id = CallerId /\ users[e].is_admin

\* what the middleware does guarantee: the token presented carries admin = true
AdminOpsByAdminTokens ==
    AdminOpPerformed => Unwrap(admin_middleware(resp.input.headers).claims).admin


----------------------------------------------------------------------------
(* What a refusal tells a caller about the directory, checked under SpecAuth. *)

\* the directory as it is, without each one of its entries, and empty
Directories == {users, EmptyMap} \cup {Remove(users, e) : e \in DOMAIN users}
\* every id a user can have, and one no user ever had
TargetIds == 1..(MaxUsers + 1)

\* C37: for a caller whose token has no admin flag and a target id other than
\* the caller's own, get, update and delete answer the same 403 'Access
\* denied' whatever the directory holds, with or without a user of that id
C37_DenialIgnoresDirectory ==
    \A t \in sessions : \A user_id \in TargetIds : \A us \in Directories :
        (Passes(t) /\ ~ClaimsOf(t).admin /\ ClaimsOf(t).sub # UuidToString(user_id)) =>
            LET claims == ClaimsOf(t)
                prt == password_reset_tokens
            IN  /\ get_user_endpoint(us, prt, claims, user_id).http = AccessDenied
                /\ delete_user_endpoint(us, prt, claims, user_id).http = AccessDenied
                /\ \A request \in AuthUpdateRequests :
                       update_user_endpoint(us, prt, claims, user_id, request).http
                         = AccessDenied

\* a caller without the admin flag was refused the record of a stored user
\* other than itself, the same answer the directory without that user gives
C37_Witness ==
    /\ resp.op = "get_user"
    /\ resp.http = AccessDenied
    /\ \E t \in sessions :
         /\ resp.input.headers = Bearer(t.token)
         /\ ~ClaimsOf(t).admin
         /\ ClaimsOf(t).sub # UuidToString(resp.input.user_id)
    /\ \E e \in DOMAIN users :
         /\ users[e].id = resp.input.user_id
         /\ ~IsSome(get_user_by_id(Remove(users, e), resp.input.user_id))


----------------------------------------------------------------------------
(* What a failed operation leaves behind: stores with accounts, live and
   expired reset tokens, and accounts deleted under their tokens. *)

\* a token issued at 0 has expired at the second instant, one issued at 1 has not
FailInstants == {1, ResetTtlHours * SecondsPerHour + 1}

NextFail ==
    \/ \E request \in [email : {EmailA}, name : {"Alice"}, password : {Pw1}],
          salt \in Salts : Register(request, salt, TRUE)
    \/ \E headers \in PresentedHeaders, user_id \in Ids : DeleteUser(headers, user_id)
    \/ \E request \in [email : {EmailA, EmailB}] : ForgotPassword(request)
    \/ \E request \in [token : PresentableTokens, new_password : {Pw2, PwWeak}],
          salt \in Salts : ResetPassword(request, salt)
    \/ \E t \in FailInstants : Advance(t)

SpecFail == Init /\ [][NextFail]_vars

\* the result r of an operation is no error, or leaves the users map and the
\* reset ledger as they are
ErrKeepsStore(r) ==
    ~r.ok => r.users = users /\ r.tokens = password_reset_tokens

FailAccounts == [email : {EmailA, EmailRoot, EmailBad}, name : {"Eve"},
                 password : {Pw2, PwWeak}]
FailLogins == [email : {EmailA, EmailB}, password : {Pw1, Pw2}]
FailProfiles == [name : {None}, email : {None, Some(EmailA), Some(EmailRoot)}]
FailPasswords == [current_password : {Pw1, Pw2}, new_password : {Pw2, PwWeak}]
FailResets == [token : PresentableTokens, new_password : {Pw2, PwWeak}]

\* C38: every UserStore operation that returns an error leaves the users map
\* and the reset ledger as they were before the call, except reset_password on
\* an expired token, which removes that token and nothing else
C38_ErrorsKeepStore ==
    \A salt \in Salts :
        /\ \A request \in FailAccounts :
               /\ ErrKeepsStore(register(users, password_reset_tokens, request,
                                         nextId, salt))
               /\ ErrKeepsStore(create_admin(users, password_reset_tokens, request,
                                             nextId, salt))
        /\ \A request \in FailLogins :
               ErrKeepsStore(login(users, password_reset_tokens, request))
        /\ \A email \in {EmailA, EmailB} :
               ErrKeepsStore(generate_password_reset_token(
                                 users, password_reset_tokens, email, nextToken))
        /\ \A user_id \in 1..(MaxUsers + 1) :
               /\ \A request \in FailProfiles :
                      ErrKeepsStore(update_user(users, password_reset_tokens,
                                                user_id, request))
               /\ \A request \in FailPasswords :
                      ErrKeepsStore(update_password(users, password_reset_tokens,
                                                    user_id, request, salt))
               /\ ErrKeepsStore(delete_user(users, password_reset_tokens, user_id))
               /\ \A request \in UpdateRoleRequests :
                      ErrKeepsStore(update_user_role(users, password_reset_tokens,
                                                     user_id, request))
        /\ \A request \in FailResets :
               LET r == reset_password(users, password_reset_tokens, request, salt)
               IN  IF Expired(request.token)
                     THEN /\ ~r.ok
                          /\ r.users = users
                          /\ r.tokens = Remove(password_reset_tokens, request.token)
                     ELSE ErrKeepsStore(r)

\* a reset with a live token has just failed and the token is still in the
\* ledger, next to an expired token and a live token whose account is gone
C38_Witness ==
    /\ resp.op = "reset_password"
    /\ resp.http.status = StatusBadRequest
    /\ resp.input.token \in DOMAIN password_reset_tokens
    /\ ~Expired(resp.input.token)
    /\ \E t \in DOMAIN password_reset_tokens : Expired(t)
    /\ \E t \in DOMAIN password_reset_tokens :
         ~Expired(t) /\ password_reset_tokens[t].email \notin DOMAIN users

====
